---- MODULE Spec2Model ----
(***************************************************************************)
(* State-machine model of the CryptoSim price engine (src/App.tsx): the    *)
(* tick loop, the simulation start/stop handlers, asset selection, the     *)
(* history load and the start-up hydration, with every await modelled as a *)
(* point where other handlers may run.                                      *)
(*                                                                         *)
(* Prices are integers (one unit = one quote-currency unit); real          *)
(* division is integer division.  Times are epoch milliseconds.            *)
(***************************************************************************)
EXTENDS Integers, Sequences, FiniteSets, TLC

VARIABLES
    now,            \* Date.now()
    phase,          \* "boot" before the mount effect's init() ran, then "run"
    env,            \* what start-up finds: URL parameters
    isWidget,       \* widgetConfig.enabled
    selectedCoin,   \* selectedCoin / selectedCoinRef.current (coin id)
    chartData,      \* chartData / chartDataRef.current
    chartCoin,      \* the asset whose load produced the samples of chartData
    realPrice,      \* realPriceRef.current
    realPriceCoin,  \* the asset whose feed produced realPrice
    simulation,     \* simulation / simulationRef.current (Null or a descriptor)
    isController,   \* isController / isControllerRef.current
    isReverting,    \* isReverting
    isLive,         \* isLive
    saved,          \* localStorage cryptosim_active_simulation (Null or a descriptor)
    history,        \* localStorage cryptosim_history: ids of the archived descriptors
    remoteSims,     \* remote table simulations: id -> [active, coinId]
    remotePoints,   \* remote table simulation_points: <<[sim, time, price, sent]>>
    pendingTicks,   \* ticks suspended in `await api.getPrice`
    pendingLoads,   \* loadMarketData calls suspended in an await
    pendingStarts,  \* startSimulation calls suspended in the remote insert
    pendingStops,   \* stopSimulation calls suspended in the remote update: id -> count
    clock,          \* number of clock advances so far
    lastFire,       \* the time of the timer's last firing
    userOps,        \* user actions so far: all of them, and those that stop or switch
    peer,           \* a second tab of the same browser: its phase, descriptor and role
    view,           \* the state of the TradingChart component (src/unnamed/part_003)
    lastOp          \* the handler branch that ran last

vars == << now, phase, env, isWidget, selectedCoin, chartData, chartCoin, realPrice,
           realPriceCoin, simulation, isController, isReverting, isLive, saved,
           history, remoteSims, remotePoints, pendingTicks, pendingLoads,
           pendingStarts, pendingStops, clock, lastFire, userOps, peer, view, lastOp >>

\* Everything the program itself holds or persists (not the clock, the
\* requests in flight or the trace label).
progVars == << selectedCoin, chartData, chartCoin, realPrice, realPriceCoin, simulation,
               isController, isReverting, isLive, saved, history, remoteSims,
               remotePoints, pendingLoads, pendingStarts, pendingStops >>

----------------------------------------------------------------------------
\* Program constants

TickPeriodMs == 1000
FetchCycleMs == 5000
MaxPoints == 3000
GraceMs == 60000
KlineMs == 60000
MsPerMinute == 60000
MsPerHour == 3600000
PriceFloor == 1

\* Bounds of the model

MaxClock == 2          \* clock advances in a behaviour
HistLen == 2           \* samples a history fetch returns (the code asks for 2000)
MockLen == 2           \* samples of the synthetic history (the code makes 1000)
MaxTicksInFlight == 1  \* ticks suspended in their price fetch at once
MaxLoads == 2          \* loadMarketData calls in flight at once
MaxStarts == 2         \* start requests sent in a behaviour
MaxUserOps == 2        \* user actions in a behaviour
MaxSwitches == 1       \* of these, stop clicks and asset selections that go through
MaxStopsInFlight == 2  \* remote updates of stopSimulation in flight at once

T0 == 3 * KlineMs + KlineMs \div 2   \* the time at start-up
Steps == {TickPeriodMs + 1}   \* what the clock advances by: the timer fires a little late

----------------------------------------------------------------------------
\* Data

Null == [none |-> TRUE]
NoId == 0 - 1            \* supabaseId undefined
WidgetSimId == 0 - 2     \* the id 'widget-sim'
PreId == 1 - 1           \* the id of the remote row that exists at start-up

\* The chart before it is mounted (src/App.tsx 573-579: a spinner is shown
\* while the first load runs).
NoChart == [mounted |-> FALSE]

\* A value domain that is not set (yDomain === null).
NoDomain == << >>

\* The state of a tab that is not open.
ClosedTab == [phase |-> "closed", simulation |-> Null, isController |-> FALSE]

COINS == {"btc", "eth"}
basePrice(c) == IF c = "btc" THEN 65000 ELSE 3400
\* The market's current price of a coin, as the price feed reports it.
marketPrice(c) == basePrice(c) + 100

DbIds == PreId..MaxStarts      \* ids of the remote table's rows

Max(a, b) == IF a >= b THEN a ELSE b
Abs(a) == IF a < 0 THEN -a ELSE a
Last(s) == s[Len(s)]

\* arr.slice(-n)
sliceLast(s, n) == IF Len(s) <= n THEN s ELSE SubSeq(s, Len(s) - n + 1, Len(s))

\* arr.findIndex(p => p.time >= t), 0 for -1
findIndex(s, t) ==
    IF \E i \in 1..Len(s) : s[i].time >= t
    THEN CHOOSE i \in 1..Len(s) : s[i].time >= t /\ \A j \in 1..(i-1) : s[j].time < t
    ELSE 0

\* a / b rounded toward zero (the model's stand-in for real division)
quot(a, b) == IF a >= 0 THEN a \div b ELSE -((-a) \div b)

\* A SimulationConfig (src/unnamed/part_005); createdAt is left out.
SimulationConfig(id, sid, act, coin, sp, tp, st, dur, vol) ==
    [id |-> id, supabaseId |-> sid, active |-> act, coinId |-> coin,
     startPrice |-> sp, targetPrice |-> tp, startTime |-> st, durationMs |-> dur,
     endTime |-> st + dur, volatility |-> vol]

\* What start-up can find: a descriptor that ends one tick after start-up, and
\* one whose end plus the grace period has passed.
RunningSim(id, sid, act) ==
    SimulationConfig(id, sid, act, "btc", basePrice("btc"), basePrice("btc") + 1000,
                     T0 + TickPeriodMs - MsPerMinute, MsPerMinute, "medium")
StaleSim ==
    SimulationConfig(PreId, PreId, TRUE, "btc", basePrice("btc"), basePrice("btc") + 1000,
                     T0 - GraceMs - 2 * MsPerMinute, MsPerMinute, "medium")

\* api.getHistory(symbol, limit): one-minute klines up to time t, oldest first.
klineHistory(c, t) ==
    [i \in 1..HistLen |->
        [time |-> (t \div KlineMs) * KlineMs - (HistLen - i) * KlineMs,
         price |-> basePrice(c), isSimulation |-> FALSE]]

\* api.getSimulationPoints(id): the rows of a simulation in the remote log, in
\* time order (the log is written in time order by the one writer).
pointsOf(log, id) ==
    LET rows == SelectSeq(log, LAMBDA row : row.sim = id) IN
    [i \in 1..Len(rows) |->
        [time |-> rows[i].time, price |-> rows[i].price, isSimulation |-> TRUE]]

----------------------------------------------------------------------------
\* storage (src/unnamed/part_002)

\* storage.archiveSimulation(config); the slot and the archive are two keys,
\* so the order of archiving and clearing shows only when the write to the
\* archive fails (resumeSaved below; in stopSimulation it is taken to succeed).
NullId == 0 - 3          \* what the archive holds for an archived null
archiveSimulation(h, config) == Append(h, IF config = Null THEN NullId ELSE config.id)

----------------------------------------------------------------------------
\* Start-up

EnvKinds == {"none", "sim_id", "sim_active", "sim_expired"}
\* The share links: sim_active=true with the parameters of a simulation.
LinkKinds == {"sim_active", "sim_expired"}
\* The descriptor the parameters of a share link make (lines 227-239): of the
\* simulation that start-up can find running, or of one that ended long ago.
urlSim(kind) ==
    IF kind = "sim_active"
    THEN RunningSim(WidgetSimId, NoId, TRUE)
    ELSE SimulationConfig(WidgetSimId, NoId, TRUE, "btc", basePrice("btc"),
                          basePrice("btc") + 1000, T0 - GraceMs - 2 * MsPerMinute,
                          MsPerMinute, "medium")

\* The state when the component mounts.  The share-link parameters are
\* taken with mode=widget (the links ShareModal builds), a saved descriptor is
\* found only outside widget mode (the branch `else if (!isWidget)`), and the
\* remote row of a followed simulation may already be inactive.
Init ==
    /\ now = T0
    /\ phase = "boot"
    /\ env \in EnvKinds
    /\ isWidget \in BOOLEAN
    /\ env \in LinkKinds => isWidget
    /\ selectedCoin = "btc"
    /\ chartData = <<>>
    /\ chartCoin = "btc"
    /\ realPrice = 0
    /\ realPriceCoin = "btc"
    /\ simulation = Null
    /\ isController = FALSE
    /\ isReverting = FALSE
    /\ isLive = TRUE
    /\ saved \in IF env = "none" /\ ~isWidget
                 THEN {Null, RunningSim(PreId, PreId, TRUE), StaleSim}
                 ELSE {Null}
    /\ history = <<>>
    /\ \E act \in BOOLEAN :
          /\ (env # "sim_id" \/ ~isWidget => act)
          /\ remoteSims = [i \in DbIds |->
                 IF i = PreId /\ (env = "sim_id" \/ saved # Null)
                 THEN [active |-> act, coinId |-> "btc"] ELSE Null]
    /\ remotePoints = <<>>
    /\ pendingTicks = {}
    /\ pendingLoads = {}
    /\ pendingStarts = {}
    /\ pendingStops = [i \in DbIds |-> 0]
    /\ clock = 0
    /\ lastFire = 0
    /\ userOps = [total |-> 0, switches |-> 0]
    /\ peer = ClosedTab
    /\ view = NoChart
    /\ lastOp = "construct"

\* loadMarketData(coin) up to its first await; afterStop tells the call that
\* follows stopSimulation() in handleCoinSelect from the others.
loadCall(c, afterStop) ==
    [coin |-> c, stage |-> "history", hist |-> <<>>, sim |-> Null, afterStop |-> afterStop]

\* A test that takes every descriptor for a current one.
notExpiredEver(sim, n) == TRUE
\* `Date.now() < sim.endTime + 60000`
notExpired(sim, n) == n < sim.endTime + GraceMs

\* Lines 249-265: what the descriptor found in the local storage becomes.  A
\* current one is resumed with the controller role; an expired one is removed
\* from its slot and then written to the archive, and when that write throws
\* (archived is FALSE) init() ends there, before it loads the market data.
resumeSaved(savedSim, h, n, archived) ==
    IF savedSim = Null
    THEN [simulation |-> Null, isController |-> FALSE, saved |-> savedSim, history |-> h,
          loads |-> TRUE]
    ELSE IF notExpired(savedSim, n)
    THEN [simulation |-> savedSim, isController |-> TRUE, saved |-> savedSim,
          history |-> h, loads |-> TRUE]
    ELSE [simulation |-> Null, isController |-> FALSE, saved |-> Null,
          history |-> IF archived THEN archiveSimulation(h, savedSim) ELSE h,
          loads |-> archived]

\* The mount effect's init(): resolve the simulation from the sim_id lookup,
\* the sim_active URL parameters or the local storage, then load the market data.
init(found, archived) ==
    LET fromStorage == env = "none" /\ ~isWidget
        r == resumeSaved(saved, history, now, archived)
    IN
    /\ phase = "boot"
    /\ phase' = "run"
    /\ lastOp' = IF env = "sim_id" /\ ~found THEN "initNotFound" ELSE "init"
    /\ env # "sim_id" => found
    /\ (fromStorage /\ saved # Null /\ ~notExpired(saved, now)) \/ archived
    /\ pendingLoads' = IF fromStorage /\ ~r.loads THEN {} ELSE {loadCall(selectedCoin, FALSE)}
    /\ IF env = "sim_id" /\ ~found
       THEN UNCHANGED << simulation, isController, saved, history >>
       ELSE IF env = "sim_id"
       THEN LET dbSim == RunningSim(PreId, PreId, remoteSims[PreId].active) IN
            /\ IF notExpired(dbSim, now)
               THEN simulation' = dbSim /\ isController' = FALSE
               ELSE UNCHANGED << simulation, isController >>
            /\ UNCHANGED << saved, history >>
       ELSE IF env \in LinkKinds
       THEN /\ IF notExpired(urlSim(env), now)
               THEN simulation' = urlSim(env) /\ isController' = FALSE
               ELSE UNCHANGED << simulation, isController >>
            /\ UNCHANGED << saved, history >>
       ELSE IF ~isWidget
       THEN /\ simulation' = (IF r.simulation = Null THEN simulation ELSE r.simulation)
            /\ isController' = (r.isController \/ isController)
            /\ saved' = r.saved
            /\ history' = r.history
       ELSE UNCHANGED << simulation, isController, saved, history >>
    /\ UNCHANGED << view, peer, now, env, isWidget, selectedCoin, chartData, chartCoin, realPrice,
                    realPriceCoin, isReverting, isLive, remoteSims, remotePoints,
                    pendingTicks, pendingStarts, pendingStops, clock, lastFire, userOps >>

\* The user opens the application in a second tab of the same browser, with
\* no URL parameters: its init() reads the same local storage (lines 248-266).
PeerOpen(archived) ==
    LET r == resumeSaved(saved, history, now, archived) IN
    /\ phase = "run"
    /\ peer.phase = "closed"
    /\ (saved # Null /\ ~notExpired(saved, now)) \/ archived
    /\ peer' = [phase |-> "run", simulation |-> r.simulation, isController |-> r.isController]
    /\ saved' = r.saved
    /\ history' = r.history
    /\ lastOp' = "peerOpen"
    /\ UNCHANGED << view, now, phase, env, isWidget, selectedCoin, chartData, chartCoin,
                    realPrice, realPriceCoin, simulation, isController, isReverting,
                    isLive, remoteSims, remotePoints, pendingTicks, pendingLoads,
                    pendingStarts, pendingStops, clock, lastFire, userOps >>

----------------------------------------------------------------------------
\* stopSimulation (src/App.tsx 390-409)

RECURSIVE sumUpTo(_, _)
sumUpTo(f, n) == IF n < PreId THEN 0 ELSE f[n] + sumUpTo(f, n - 1)
stopsInFlight == sumUpTo(pendingStops, MaxStarts)

\* A stopSimulation that leaves the reverting flag down.
stopRevertingDown == FALSE
\* setIsReverting(true) at the end of stopSimulation
stopReverting == TRUE

\* stopSimulation after its await (or without one): archive and clear when
\* the guard `if (simulationRef.current)` was passed, then drop the descriptor.
stopFinish(inGuard) ==
    /\ IF inGuard /\ ~isWidget
       THEN /\ history' = archiveSimulation(history, simulation)
            /\ saved' = Null
       ELSE UNCHANGED << history, saved >>
    /\ simulation' = Null
    /\ isController' = FALSE
    /\ isReverting' = stopReverting

\* The admin panel is on screen (src/App.tsx 598) once the component has
\* rendered: after init() has run, and also while init() is still suspended in
\* its lookup of the sim_id row (line 182).
uiReady == phase = "run" \/ (phase = "boot" /\ env = "sim_id")

\* Whether stopSimulation, called now, suspends in the remote update.
stopAwaits == simulation # Null /\ simulation.supabaseId # NoId /\ isController

\* stopSimulation() up to its await: the controller of a persisted simulation
\* sends the update and suspends; everyone else finishes at once.
stopCall ==
    IF stopAwaits
    THEN /\ pendingStops' =
               [pendingStops EXCEPT ![simulation.supabaseId] = @ + 1]
         /\ UNCHANGED << simulation, isController, isReverting, history, saved >>
    ELSE /\ stopFinish(simulation # Null)
         /\ UNCHANGED pendingStops

\* The remote update of a suspended stopSimulation returns (ok: the row is
\* updated; not ok: an error object is returned), and stopSimulation goes on.
StopResume(id, ok) ==
    /\ pendingStops[id] > 0
    /\ pendingStops' = [pendingStops EXCEPT ![id] = @ - 1]
    /\ remoteSims' = IF ok /\ remoteSims[id] # Null
                     THEN [remoteSims EXCEPT ![id].active = FALSE]
                     ELSE remoteSims
    /\ stopFinish(TRUE)
    /\ lastOp' = "stopResume"
    /\ UNCHANGED << view, peer, now, phase, env, isWidget, selectedCoin, chartData, chartCoin,
                    realPrice, realPriceCoin, isLive, remotePoints, pendingTicks,
                    pendingLoads, pendingStarts, clock, lastFire, userOps >>

\* The Stop button (rendered while a descriptor is shown, outside widget mode).
StopClick ==
    /\ uiReady
    /\ ~isWidget
    /\ simulation # Null
    /\ userOps.total < MaxUserOps /\ userOps.switches < MaxSwitches
    /\ userOps' = [total |-> userOps.total + 1, switches |-> userOps.switches + 1]
    /\ stopAwaits => stopsInFlight < MaxStopsInFlight
    /\ stopCall
    /\ lastOp' = "stopClick"
    /\ UNCHANGED << view, peer, now, phase, env, isWidget, selectedCoin, chartData, chartCoin,
                    realPrice, realPriceCoin, isLive, remoteSims, remotePoints,
                    pendingTicks, pendingLoads, pendingStarts, clock, lastFire >>

----------------------------------------------------------------------------
\* Main engine loop (src/App.tsx 412-502)

RandDraws == {0, 1}     \* (Math.random() - 0.5) * 2 at its middle and upper end

volatilityMultiplierE4(vol) ==   \* in 1/10000
    IF vol = "low" THEN 1 ELSE IF vol = "high" THEN 20 ELSE 5

\* A jerk drawn from {1, 2, 4} whatever the volatility.
jerkChoicesAny(vol) == {1, 2, 4}
\* jerkMultiplier (lines 448-453): 4 under high volatility only, else 2 or 1
jerkChoices(vol) == IF vol = "high" THEN {1, 2, 4} ELSE {1, 2}

\* Simulating branch: lastPoint.price + trendStep + randomShock * jerkMultiplier
simulatedPrice(sim, n, last, r, jerk) ==
    LET remainingTime == sim.durationMs - (n - sim.startTime)
        currentGap == sim.targetPrice - last
        trendStep == IF remainingTime <= TickPeriodMs THEN currentGap
                     ELSE quot(currentGap * TickPeriodMs, remainingTime)
        volatility == quot(last * volatilityMultiplierE4(sim.volatility), 10000)
    IN  last + trendStep + r * volatility * jerk

\* Reverting branch: the convergence test and the next price
revertSnaps(target, last) == Abs(target - last) * 10000 < target
\* A step of a tenth of the error away from the target.
revertPriceAway(target, last, r) ==
    IF revertSnaps(target, last) THEN target
    ELSE last - quot(target - last, 10) + quot(r * last, 10000)
revertPrice(target, last, r) ==
    IF revertSnaps(target, last) THEN target
    ELSE last + quot(target - last, 10) + quot(r * last, 10000)

\* Math.max(0.00000001, nextPrice)
clampPrice(p) == Max(PriceFloor, p)

\* The append gate and the capacity cut.
appendGate(n, lastPoint) == n - lastPoint.time > TickPeriodMs
appended(lastData, n, price, isSim) ==
    sliceLast(Append(lastData, [time |-> n, price |-> clampPrice(price),
                                isSimulation |-> isSim]), MaxPoints)

\* A test that lets every process holding an active descriptor advance it.
controlsSimAnyRole(sim) == sim # Null /\ sim.active
\* `if (sim && sim.active && isControllerRef.current)`, read after the price fetch
controlsSim(sim) == sim # Null /\ sim.active /\ isController

\* A remote log that gets the row of one insert twice.
pointInsertRetried(log, sim, n, price, wrote) ==
    IF sim.supabaseId # NoId
    THEN log \o << [sim |-> sim.supabaseId, time |-> n, price |-> price, sent |-> TRUE],
                   [sim |-> sim.supabaseId, time |-> n, price |-> price, sent |-> TRUE] >>
    ELSE log
\* The insert into simulation_points (lines 458-466): sent without an await,
\* its result only logged; wrote tells whether the row reaches the table.
pointInsert(log, sim, n, price, wrote) ==
    IF sim.supabaseId # NoId /\ wrote
    THEN Append(log, [sim |-> sim.supabaseId, time |-> n, price |-> price, sent |-> TRUE])
    ELSE log

\* The callback from mode resolution on: n, lastData and sim were read before
\* the price fetch, rev is the isReverting of the render that made the timer,
\* dataCoin the asset of lastData.
tickBody(n, lastData, dataCoin, sim, rev, r, jerk, wrote) ==
    LET lastPoint == Last(lastData) IN
    IF controlsSim(sim)
    THEN /\ isLive' = FALSE
         /\ IF n - sim.startTime >= sim.durationMs
            THEN /\ stopCall
                 /\ UNCHANGED remotePoints
                 /\ IF appendGate(n, lastPoint)
                    THEN /\ chartData' = appended(lastData, n, lastPoint.price, FALSE)
                         /\ chartCoin' = dataCoin
                    ELSE UNCHANGED << chartData, chartCoin >>
                 /\ lastOp' = "tickComplete"
            ELSE LET nextPrice == simulatedPrice(sim, n, lastPoint.price, r, jerk) IN
                 /\ remotePoints' = pointInsert(remotePoints, sim, n, nextPrice, wrote)
                 /\ IF appendGate(n, lastPoint)
                    THEN /\ chartData' = appended(lastData, n, nextPrice, TRUE)
                         /\ chartCoin' = dataCoin
                    ELSE UNCHANGED << chartData, chartCoin >>
                 /\ lastOp' = "tickSimulate"
                 /\ UNCHANGED << simulation, isController, isReverting, history, saved,
                                 pendingStops >>
    ELSE IF rev
    THEN /\ isLive' = FALSE
         /\ isReverting' = IF revertSnaps(realPrice', lastPoint.price)
                           THEN FALSE ELSE isReverting
         /\ IF appendGate(n, lastPoint)
            THEN /\ chartData' = appended(lastData, n,
                                     revertPrice(realPrice', lastPoint.price, r), FALSE)
                 /\ chartCoin' = dataCoin
            ELSE UNCHANGED << chartData, chartCoin >>
         /\ lastOp' = IF revertSnaps(realPrice', lastPoint.price)
                      THEN "tickSnap" ELSE "tickRevert"
         /\ UNCHANGED << simulation, isController, history, saved, pendingStops,
                         remotePoints >>
    ELSE IF sim = Null
    THEN /\ isLive' = TRUE
         /\ IF appendGate(n, lastPoint)
            THEN /\ chartData' = appended(lastData, n, realPrice', FALSE)
                 /\ chartCoin' = dataCoin
            ELSE UNCHANGED << chartData, chartCoin >>
         /\ lastOp' = "tickLive"
         /\ UNCHANGED << simulation, isController, isReverting, history, saved,
                         pendingStops, remotePoints >>
    ELSE /\ lastOp' = "tickReturn"
         /\ UNCHANGED << isLive, simulation, isController, isReverting, history, saved,
                         pendingStops, remotePoints, chartData, chartCoin >>

\* Whether a tick at time n waits for a price fetch first.
fetchesPrice(n) == n % FetchCycleMs < TickPeriodMs /\ ~isWidget

\* Whether a tick reading sim would call stopSimulation into a remote update.
tickStops(n, sim) ==
    /\ controlsSim(sim)
    /\ n - sim.startTime >= sim.durationMs
    /\ stopAwaits

\* A timer firing that does not fetch: the whole callback in one step.
Tick(draws, writes) ==
    /\ phase = "run"
    /\ Len(chartData) > 0
    /\ ~fetchesPrice(now)
    /\ lastFire < now
    /\ lastFire' = now
    /\ tickStops(now, simulation) => stopsInFlight < MaxStopsInFlight
    /\ \E r \in draws, wrote \in writes :
         \E jerk \in (IF simulation = Null THEN {1} ELSE jerkChoices(simulation.volatility)) :
            /\ realPrice' = realPrice
            /\ tickBody(now, chartData, chartCoin, simulation, isReverting, r, jerk, wrote)
    /\ UNCHANGED << view, peer, now, phase, env, isWidget, selectedCoin, realPriceCoin, remoteSims,
                    pendingTicks, pendingLoads, pendingStarts, clock, userOps >>

\* A timer firing that fetches the price: the callback up to its await.
TickFetch ==
    /\ phase = "run"
    /\ Len(chartData) > 0
    /\ fetchesPrice(now)
    /\ lastFire < now
    /\ lastFire' = now
    /\ Cardinality(pendingTicks) < MaxTicksInFlight
    /\ pendingTicks' = pendingTicks \cup
          {[now |-> now, lastData |-> chartData, dataCoin |-> chartCoin,
            sim |-> simulation, rev |-> isReverting, coin |-> selectedCoin]}
    /\ lastOp' = "tickFetch"
    /\ UNCHANGED << view, peer, now, phase, env, isWidget, selectedCoin, chartData, chartCoin,
                    realPrice, realPriceCoin, simulation, isController, isReverting,
                    isLive, saved, history, remoteSims, remotePoints, pendingLoads,
                    pendingStarts, pendingStops, clock, userOps >>

\* api.getPrice returns (got: a price; not got: null) and the callback goes on.
TickResume(t, got, draws, writes) ==
    /\ t \in pendingTicks
    /\ tickStops(t.now, t.sim) => stopsInFlight < MaxStopsInFlight
    /\ pendingTicks' = pendingTicks \ {t}
    /\ realPrice' = IF got THEN marketPrice(t.coin) ELSE realPrice
    /\ realPriceCoin' = IF got THEN t.coin ELSE realPriceCoin
    /\ \E r \in draws, wrote \in writes :
         \E jerk \in (IF t.sim = Null THEN {1} ELSE jerkChoices(t.sim.volatility)) :
            tickBody(t.now, t.lastData, t.dataCoin, t.sim, t.rev, r, jerk, wrote)
    /\ UNCHANGED << view, peer, now, phase, env, isWidget, selectedCoin, remoteSims, pendingLoads,
                    pendingStarts, clock, lastFire, userOps >>


----------------------------------------------------------------------------
\* Starting a simulation (src/components/SimulationControl.tsx 26-42,
\* src/App.tsx 340-388)

\* What the user can have typed into the three inputs.
TargetEntered == {"", "0", "66000"}
HoursEntered == {"", "1"}
MinutesEntered == {"", "-60"}

\* parseFloat(targetPrice): a number, or NaN (value unused)
parseFloat(str) ==
    IF str = "" THEN [isNaN |-> TRUE, value |-> 0]
    ELSE IF str = "0" THEN [isNaN |-> FALSE, value |-> 0]
    ELSE [isNaN |-> FALSE, value |-> 66000]
\* parseInt(str, 10) || 0
parseIntOr0(str) == IF str = "" THEN 0 ELSE IF str = "1" THEN 1 ELSE -60

\* handleStart's two validation tests: TRUE when onStart is called.
handleStartAccepts(price, h, m) ==
    /\ ~(price.isNaN \/ price.value <= 0)
    /\ ~(h = 0 /\ m = 0)

durationOf(h, m) == h * MsPerHour + m * MsPerMinute

createdSims == {i \in DbIds \ {PreId} : remoteSims[i] # Null}

\* handleStart, and startSimulation up to its await of the remote insert.
StartSimulation(targetStr, hoursStr, minutesStr, vol) ==
    LET price == parseFloat(targetStr)
        h == parseIntOr0(hoursStr)
        m == parseIntOr0(minutesStr)
        currentPrice == IF Len(chartData) > 0 /\ Last(chartData).price # 0
                        THEN Last(chartData).price ELSE basePrice(selectedCoin)
    IN
    /\ uiReady
    /\ ~isWidget
    /\ simulation = Null
    /\ IF handleStartAccepts(price, h, m)
       THEN /\ Cardinality(createdSims) + Cardinality(pendingStarts) < MaxStarts
            /\ userOps.total < MaxUserOps
            /\ userOps' = [userOps EXCEPT !.total = @ + 1]
            /\ pendingStarts' = pendingStarts \cup
                  {[coin |-> selectedCoin, startPrice |-> currentPrice,
                    targetPrice |-> price.value, now |-> now, durationMs |-> durationOf(h, m),
                    volatility |-> vol]}
            /\ lastOp' = "startCall"
       ELSE /\ UNCHANGED << pendingStarts, userOps >>
            /\ lastOp' = "startRejected"
    /\ UNCHANGED << view, peer, now, phase, env, isWidget, selectedCoin, chartData, chartCoin,
                    realPrice, realPriceCoin, simulation, isController, isReverting,
                    isLive, saved, history, remoteSims, remotePoints, pendingTicks,
                    pendingLoads, pendingStops, clock, lastFire >>

\* The remote insert returns (ok: the row exists and its id comes back; not
\* ok: an error) and startSimulation goes on.
StartResume(q, ok) ==
    /\ q \in pendingStarts
    /\ pendingStarts' = pendingStarts \ {q}
    /\ IF ok
       THEN LET id == PreId + Cardinality(createdSims) + 1
                config == SimulationConfig(id, id, TRUE, selectedCoin, q.startPrice,
                              q.targetPrice, q.now, q.durationMs, q.volatility)
            IN /\ remoteSims' = [remoteSims EXCEPT
                                   ![id] = [active |-> TRUE, coinId |-> q.coin]]
               /\ isReverting' = FALSE
               /\ simulation' = config
               /\ isController' = TRUE
               /\ saved' = IF ~isWidget THEN config ELSE saved
               /\ lastOp' = "startResume"
       ELSE /\ lastOp' = "startFailed"
            /\ UNCHANGED << remoteSims, isReverting, simulation, isController, saved >>
    /\ UNCHANGED << view, peer, now, phase, env, isWidget, selectedCoin, chartData, chartCoin,
                    realPrice, realPriceCoin, isLive, history, remotePoints,
                    pendingTicks, pendingLoads, pendingStops, clock, lastFire, userOps >>

----------------------------------------------------------------------------
\* Selecting an asset (src/App.tsx 324-334)

\* A handler that goes on whatever the answer.
declinesNever(confirmSwitch) == FALSE
\* `if (!confirmSwitch) return;`
declines(confirmSwitch) == ~confirmSwitch

HandleCoinSelect(coin, confirmSwitch) ==
    /\ phase = "run"
    /\ ~isWidget
    /\ simulation = Null => confirmSwitch       \* no dialog is shown
    /\ IF simulation # Null /\ declines(confirmSwitch)
       THEN /\ UNCHANGED << selectedCoin, pendingLoads, simulation, isController,
                            isReverting, history, saved, pendingStops, userOps >>
       ELSE /\ userOps.total < MaxUserOps /\ userOps.switches < MaxSwitches
            /\ userOps' = [total |-> userOps.total + 1,
                           switches |-> userOps.switches + 1]
            /\ Cardinality(pendingLoads) < MaxLoads
            /\ stopAwaits => stopsInFlight < MaxStopsInFlight
            /\ IF simulation # Null
               THEN stopCall
               ELSE UNCHANGED << simulation, isController, isReverting, history, saved,
                                 pendingStops >>
            /\ selectedCoin' = coin
            /\ pendingLoads' = pendingLoads \cup {loadCall(coin, simulation # Null)}
    /\ lastOp' = IF simulation # Null /\ ~confirmSwitch
                 THEN "coinSelectDeclined" ELSE "coinSelect"
    /\ UNCHANGED << view, peer, now, phase, env, isWidget, chartData, chartCoin, realPrice,
                    realPriceCoin, isLive, remoteSims, remotePoints, pendingTicks,
                    pendingStarts, clock, lastFire >>

----------------------------------------------------------------------------
\* loadMarketData (src/App.tsx 80-144)

\* generateMockHistory(coin): one sample a minute up to a minute ago, a random
\* walk from the base price whose steps all take the draw r, one step before
\* the first sample.
RECURSIVE mockWalk(_, _, _)
mockWalk(price, r, i) ==
    IF i = 0 THEN price ELSE mockWalk(price + quot(r * price, 1000), r, i - 1)
mockHistory(c, t, r) ==
    [i \in 1..MockLen |->
        [time |-> t - (MockLen - i + 1) * MsPerMinute, price |-> mockWalk(basePrice(c), r, i),
         isSimulation |-> FALSE]]

\* A merge that keeps the whole fetched history in front of the remote points.
mergeUncut(hist, sim, dbPoints, ctrl) == hist \o dbPoints
\* Lines 101-108: the history before the simulation's start, then the remote
\* points; without remote points the controller keeps the cut history and a
\* viewer the whole history.
mergeHistory(hist, sim, dbPoints, ctrl) ==
    LET splitIndex == findIndex(hist, sim.startTime)
        cleanHistory == IF splitIndex # 0 THEN SubSeq(hist, 1, splitIndex - 1) ELSE hist
    IN  IF Len(dbPoints) > 0 THEN cleanHistory \o dbPoints
        ELSE IF ctrl THEN cleanHistory
        ELSE hist

\* api.getHistory returns (ok: klines; not ok: the empty list) and the load
\* goes on, to its end or to the await of api.getSimulationPoints.
LoadHistoryResume(l, ok, r) ==
    LET hist == IF ok THEN klineHistory(l.coin, now) ELSE <<>>
        sim == simulation
    IN
    /\ l \in pendingLoads
    /\ l.stage = "history"
    /\ IF Len(hist) > 0 /\ sim # Null /\ sim.active
       THEN /\ realPrice' = Last(hist).price
            /\ realPriceCoin' = l.coin
            /\ IF sim.supabaseId # NoId
               THEN /\ pendingLoads' = (pendingLoads \ {l}) \cup
                          {[coin |-> l.coin, stage |-> "points", hist |-> hist, sim |-> sim,
                            afterStop |-> l.afterStop]}
                    /\ UNCHANGED << chartData, chartCoin >>
                    /\ lastOp' = "loadAwaitPoints"
               ELSE /\ pendingLoads' = pendingLoads \ {l}
                    /\ chartData' = mergeHistory(hist, sim, <<>>, isController)
                    /\ chartCoin' = l.coin
                    /\ lastOp' = "loadMerged"
       ELSE IF Len(hist) = 0
       THEN /\ pendingLoads' = pendingLoads \ {l}
            /\ realPrice' = basePrice(l.coin)
            /\ realPriceCoin' = l.coin
            /\ chartData' = mockHistory(l.coin, now, r)
            /\ chartCoin' = l.coin
            /\ lastOp' = "loadMock"
       ELSE /\ pendingLoads' = pendingLoads \ {l}
            /\ realPrice' = Last(hist).price
            /\ realPriceCoin' = l.coin
            /\ chartData' = hist
            /\ chartCoin' = l.coin
            /\ lastOp' = "loadHistory"
    /\ UNCHANGED << view, peer, now, phase, env, isWidget, selectedCoin, simulation, isController,
                    isReverting, isLive, saved, history, remoteSims, remotePoints,
                    pendingTicks, pendingStarts, pendingStops, clock, lastFire, userOps >>

\* api.getSimulationPoints returns (ok: the remote log; not ok: the empty
\* list) and the load finishes with the descriptor it read before the await.
LoadPointsResume(l, ok) ==
    LET dbPoints == IF ok THEN pointsOf(remotePoints, l.sim.supabaseId) ELSE <<>> IN
    /\ l \in pendingLoads
    /\ l.stage = "points"
    /\ pendingLoads' = pendingLoads \ {l}
    /\ chartData' = mergeHistory(l.hist, l.sim, dbPoints, isController)
    /\ chartCoin' = l.coin
    /\ lastOp' = IF ok THEN "loadMerged" ELSE "loadPointsFailed"
    /\ UNCHANGED << view, peer, now, phase, env, isWidget, selectedCoin, realPrice, realPriceCoin,
                    simulation, isController, isReverting, isLive, saved, history,
                    remoteSims, remotePoints, pendingTicks, pendingStarts, pendingStops,
                    clock, lastFire, userOps >>

----------------------------------------------------------------------------
\* Realtime subscription of a viewer (src/App.tsx 284-322)

subscribed == simulation # Null /\ simulation.supabaseId # NoId /\ ~isController

\* The controller of the followed simulation, another process, writes the
\* point of its tick to the remote log (lines 458-465 run there); sent tells
\* whether the row's insert event has reached this process, and the rows this
\* process writes itself have no event to wait for.
RemoteInsert(price) ==
    /\ phase = "run"
    /\ env = "sim_id"
    /\ remoteSims[PreId] # Null /\ remoteSims[PreId].active
    /\ Len(remotePoints) > 0 => Last(remotePoints).time < now
    /\ remotePoints' = Append(remotePoints, [sim |-> PreId, time |-> now,
                                             price |-> price, sent |-> FALSE])
    /\ lastOp' = "remoteInsert"
    /\ UNCHANGED << view, peer, now, phase, env, isWidget, selectedCoin, chartData, chartCoin,
                    realPrice, realPriceCoin, simulation, isController, isReverting,
                    isLive, saved, history, remoteSims, pendingTicks, pendingLoads,
                    pendingStarts, pendingStops, clock, lastFire, userOps >>

\* The rows of simulation id whose insert event is still on its way.
unsentRows(id) ==
    {i \in 1..Len(remotePoints) : remotePoints[i].sim = id /\ ~remotePoints[i].sent}

\* The insert event of row i reaches this viewer (events arrive in the order
\* of the rows): the callback appends the point, whatever the buffer holds.
RealtimeInsert(i) ==
    /\ phase = "run"
    /\ subscribed
    /\ i \in unsentRows(simulation.supabaseId)
    /\ unsentRows(simulation.supabaseId) \cap 1..(i-1) = {}
    /\ remotePoints' = [remotePoints EXCEPT ![i].sent = TRUE]
    /\ chartData' = sliceLast(Append(chartData,
                        [time |-> remotePoints[i].time, price |-> remotePoints[i].price,
                         isSimulation |-> TRUE]), MaxPoints)
    /\ lastOp' = "realtimeInsert"
    /\ UNCHANGED << view, peer, now, phase, env, isWidget, selectedCoin, chartCoin, realPrice,
                    realPriceCoin, simulation, isController, isReverting, isLive, saved,
                    history, remoteSims, pendingTicks, pendingLoads,
                    pendingStarts, pendingStops, clock, lastFire, userOps >>

----------------------------------------------------------------------------
\* The clock

AdvanceTime(d) ==
    /\ clock < MaxClock
    /\ phase = "run"
    /\ Len(chartData) > 0 => lastFire = now     \* the timer fired at this instant
    /\ clock' = clock + 1
    /\ now' = now + d
    /\ lastOp' = "time"
    /\ UNCHANGED << view, peer, phase, env, isWidget, selectedCoin, chartData, chartCoin, realPrice,
                    realPriceCoin, simulation, isController, isReverting, isLive, saved,
                    history, remoteSims, remotePoints, pendingTicks, pendingLoads,
                    pendingStarts, pendingStops, lastFire, userOps >>

----------------------------------------------------------------------------

VolatilityChoices == {"medium"}

\* The engine on its own: start-up, the timer, the clock and the responses;
\* draws are the random draws of a tick, writes the outcomes of its remote write.
Engine(draws, writes) ==
    \/ \E found, archived \in BOOLEAN : init(found, archived)
    \/ \E d \in Steps : AdvanceTime(d)
    \/ Tick(draws, writes)
    \/ TickFetch
    \/ \E t \in pendingTicks, got \in BOOLEAN : TickResume(t, got, draws, writes)
    \/ \E id \in DbIds, ok \in BOOLEAN : StopResume(id, ok)
    \/ \E l \in pendingLoads, ok \in BOOLEAN, r \in draws : LoadHistoryResume(l, ok, r)
    \/ \E l \in pendingLoads, ok \in BOOLEAN : LoadPointsResume(l, ok)

\* A point of the followed simulation written by its controller, and its
\* insert event reaching this viewer.
NextRealtime ==
    \/ RemoteInsert(RunningSim(PreId, PreId, TRUE).targetPrice)
    \/ \E i \in unsentRows(PreId) : RealtimeInsert(i)

\* The user's actions.
NextStart ==
    \/ \E ts \in TargetEntered, hs \in HoursEntered, ms \in MinutesEntered,
          vol \in VolatilityChoices : StartSimulation(ts, hs, ms, vol)
    \/ \E q \in pendingStarts, ok \in BOOLEAN : StartResume(q, ok)
NextSelect ==
    \E c \in COINS, confirmSwitch \in BOOLEAN : HandleCoinSelect(c, confirmSwitch)

\* Start-up of the full application (no widget mode, no share link).
InitApp == Init /\ env = "none" /\ ~isWidget /\ saved # StaleSim

NextEngine == Engine(RandDraws, BOOLEAN) \/ NextRealtime
\* With the user's actions the ticks draw no noise and their remote writes succeed.
NextQuiet == Engine({0}, {TRUE})

SpecEngine == Init /\ [][NextEngine]_vars
SpecStart == InitApp /\ [][NextQuiet \/ NextStart \/ StopClick]_vars
SpecSelect == InitApp /\ [][NextQuiet \/ NextSelect]_vars
SpecStop == InitApp /\ [][NextQuiet \/ NextSelect \/ StopClick]_vars
InitFresh == InitApp /\ saved = Null
SpecSwitch == InitFresh /\ [][NextQuiet \/ NextSelect \/ NextStart]_vars
Next == NextQuiet \/ NextStart \/ StopClick \/ NextSelect
Spec == InitApp /\ [][Next]_vars

\* The engine with every step that is enabled eventually taken: the timer
\* keeps firing and every request in flight is eventually answered.
FairEngine ==
    /\ SpecEngine
    /\ WF_vars(\E found, archived \in BOOLEAN : init(found, archived))
    /\ WF_vars(\E d \in Steps : AdvanceTime(d))
    /\ WF_vars(Tick(RandDraws, BOOLEAN))
    /\ WF_vars(TickFetch)
    /\ WF_vars(\E t \in pendingTicks, got \in BOOLEAN : TickResume(t, got, RandDraws, BOOLEAN))
    /\ WF_vars(\E id \in DbIds, ok \in BOOLEAN : StopResume(id, ok))
    /\ WF_vars(\E l \in pendingLoads, ok \in BOOLEAN, r \in RandDraws :
                  LoadHistoryResume(l, ok, r))
    /\ WF_vars(\E l \in pendingLoads, ok \in BOOLEAN : LoadPointsResume(l, ok))

----------------------------------------------------------------------------
\* The application after a long run: a simulation that has been running for
\* MaxPoints + 1 ticks, its points in the remote log, and the buffer either
\* full (the page was kept open) or about to be loaded (the page was reloaded).

TLong == T0 + MsPerHour       \* the time when the scenario starts
LongSim(act) ==
    SimulationConfig(PreId, PreId, act, "btc", basePrice("btc"), basePrice("btc") + 1000,
                     TLong - (MaxPoints + 2) * (TickPeriodMs + 1), MsPerHour, "medium")
\* The rows of its ticks so far, one per firing, the last one a period ago.
longLog ==
    [i \in 1..(MaxPoints + 1) |->
        [sim |-> PreId, time |-> TLong - (MaxPoints + 2 - i) * (TickPeriodMs + 1),
         price |-> basePrice("btc") + i \div 4, sent |-> TRUE]]
\* The buffer of a page kept open: the last n samples of the run.
keptBuffer(n, isSim) ==
    [i \in 1..n |->
        [time |-> TLong - (n + 1 - i) * (TickPeriodMs + 1),
         price |-> basePrice("btc") + (MaxPoints + 1 - n + i) \div 4,
         isSimulation |-> isSim]]

InitLong ==
    /\ now = TLong
    /\ phase = "run"
    /\ env \in {"none", "sim_id"}
    /\ isWidget \in BOOLEAN
    /\ env = "none" => ~isWidget
    /\ selectedCoin = "btc"
    /\ chartCoin = "btc"
    /\ realPrice = basePrice("btc")
    /\ realPriceCoin = "btc"
    /\ isReverting = FALSE
    /\ history = <<>>
    /\ \E running \in BOOLEAN :
          /\ env = "sim_id" => running
          /\ simulation = IF running THEN LongSim(TRUE) ELSE Null
          /\ isController = (running /\ env = "none")
          /\ saved = IF running /\ env = "none" THEN LongSim(TRUE) ELSE Null
          /\ isLive = ~running
          /\ remoteSims = [i \in DbIds |->
                 IF i = PreId /\ running
                 THEN [active |-> TRUE, coinId |-> "btc"] ELSE Null]
          /\ remotePoints = IF running THEN longLog ELSE <<>>
          /\ \E reloaded \in BOOLEAN, n \in {MaxPoints - 1, MaxPoints} :
                /\ reloaded => (running /\ n = MaxPoints)
                /\ chartData = IF reloaded THEN <<>> ELSE keptBuffer(n, running)
                /\ pendingLoads = IF reloaded THEN {loadCall("btc", FALSE)} ELSE {}
    /\ pendingTicks = {}
    /\ pendingStarts = {}
    /\ pendingStops = [i \in DbIds |-> 0]
    /\ clock = 0
    /\ lastFire = 0
    /\ userOps = [total |-> 0, switches |-> 0]
    /\ peer = ClosedTab
    /\ view = NoChart
    /\ lastOp = "construct"

NextLong ==
    \/ \E d \in Steps : AdvanceTime(d)
    \/ Tick({0}, {TRUE})
    \/ TickFetch
    \/ \E t \in pendingTicks, got \in BOOLEAN : TickResume(t, got, {0}, {TRUE})
    \/ \E l \in pendingLoads, ok \in BOOLEAN : LoadHistoryResume(l, ok, 0)
    \/ \E l \in pendingLoads, ok \in BOOLEAN : LoadPointsResume(l, ok)
    \/ NextRealtime
SpecLong == InitLong /\ [][NextLong]_vars

----------------------------------------------------------------------------
\* The engine with a timer that fires exactly on its period.

NextPunctual == \E d \in {TickPeriodMs} : AdvanceTime(d)
NextGate ==
    \/ \E found, archived \in BOOLEAN : init(found, archived)
    \/ NextPunctual
    \/ Tick({0}, {TRUE})
    \/ TickFetch
    \/ \E t \in pendingTicks, got \in BOOLEAN : TickResume(t, got, {0}, {TRUE})
    \/ \E id \in DbIds, ok \in BOOLEAN : StopResume(id, ok)
    \/ \E l \in pendingLoads, ok \in BOOLEAN : LoadHistoryResume(l, ok, 0)
    \/ \E l \in pendingLoads, ok \in BOOLEAN : LoadPointsResume(l, ok)
SpecGate == Init /\ [][NextGate]_vars

----------------------------------------------------------------------------
\* The price path of one simulation from its start to its end, without noise:
\* the timer fires exactly on its period and every price fetch is answered
\* before the next firing.

\* The clock moves on by d, up to the horizon.
Pace(d, horizon) ==
    /\ phase = "run"
    /\ now + d <= horizon
    /\ Len(chartData) > 0 => lastFire = now
    /\ pendingTicks = {}
    /\ now' = now + d
    /\ lastOp' = "time"
    /\ UNCHANGED << view, peer, phase, env, isWidget, selectedCoin, chartData, chartCoin, realPrice,
                    realPriceCoin, simulation, isController, isReverting, isLive, saved,
                    history, remoteSims, remotePoints, pendingTicks, pendingLoads,
                    pendingStarts, pendingStops, clock, lastFire, userOps >>

StartPrices == {100, basePrice("btc")}          \* the last price when the user starts
TargetsFor(sp) == {2 * sp, sp \div 2, sp}       \* the target price entered
LastAges == {0, 1, TickPeriodMs}    \* the age of the last sample when the user starts
AllVolatility == {"low", "medium", "high"}

\* The state startSimulation leaves: the timer has fired at this instant, the
\* descriptor starts now at the buffer's last price and lasts a minute.
InitConverge ==
    /\ now = T0
    /\ phase = "run"
    /\ env = "none"
    /\ isWidget = FALSE
    /\ selectedCoin = "btc"
    /\ chartCoin = "btc"
    /\ realPriceCoin = "btc"
    /\ \E sp \in StartPrices, age \in LastAges, vol \in AllVolatility :
         \E tp \in TargetsFor(sp) :
          /\ chartData = << [time |-> T0 - KlineMs, price |-> sp, isSimulation |-> FALSE],
                            [time |-> T0 - age, price |-> sp, isSimulation |-> FALSE] >>
          /\ realPrice = sp
          /\ simulation = SimulationConfig(PreId, PreId, TRUE, "btc", sp, tp, T0,
                                           MsPerMinute, vol)
          /\ saved = simulation
    /\ isController = TRUE
    /\ isReverting = FALSE
    /\ isLive = FALSE
    /\ history = <<>>
    /\ remoteSims = [i \in DbIds |->
           IF i = PreId THEN [active |-> TRUE, coinId |-> "btc"] ELSE Null]
    /\ remotePoints = <<>>
    /\ pendingTicks = {}
    /\ pendingLoads = {}
    /\ pendingStarts = {}
    /\ pendingStops = [i \in DbIds |-> 0]
    /\ clock = 0
    /\ lastFire = T0
    /\ userOps = [total |-> 0, switches |-> 0]
    /\ peer = ClosedTab
    /\ view = NoChart
    /\ lastOp = "startResume"

NextConverge ==
    \/ (simulation # Null /\ Pace(TickPeriodMs, simulation.endTime + TickPeriodMs))
    \/ Tick({0}, {TRUE})
    \/ TickFetch
    \/ \E t \in pendingTicks, got \in BOOLEAN : TickResume(t, got, {0}, {TRUE})
    \/ \E id \in DbIds, ok \in BOOLEAN : StopResume(id, ok)
SpecConverge == InitConverge /\ [][NextConverge]_vars

----------------------------------------------------------------------------
\* Reverting after a stop, toward a real price that stays fixed: the timer
\* fires exactly on its period, every price fetch fails before the next firing
\* (the previous estimate stays), and the ticks draw noise.

RevertTicks == 8          \* timer periods of the scenario
\* The real price, large enough for a tenth of every error outside the snap
\* band to be 10 units or more, so that whole-number division never stalls.
FixedRealPrice == 1000000
\* The last price minus the real price when the simulation was stopped.
LastErrors == {50000, 300, 50, 0 - 300, 0 - 50000}

InitRevert ==
    /\ now = T0
    /\ phase = "run"
    /\ env = "none"
    /\ isWidget = FALSE
    /\ selectedCoin = "btc"
    /\ chartCoin = "btc"
    /\ realPriceCoin = "btc"
    /\ realPrice = FixedRealPrice
    /\ \E e \in LastErrors, age \in LastAges :
          chartData = << [time |-> T0 - KlineMs, price |-> FixedRealPrice,
                          isSimulation |-> FALSE],
                         [time |-> T0 - age, price |-> FixedRealPrice + e,
                          isSimulation |-> TRUE] >>
    /\ simulation = Null
    /\ saved = Null
    /\ isController = FALSE
    /\ isReverting = TRUE
    /\ isLive = FALSE
    /\ history = << PreId >>
    /\ remoteSims = [i \in DbIds |->
           IF i = PreId THEN [active |-> FALSE, coinId |-> "btc"] ELSE Null]
    /\ remotePoints = <<>>
    /\ pendingTicks = {}
    /\ pendingLoads = {}
    /\ pendingStarts = {}
    /\ pendingStops = [i \in DbIds |-> 0]
    /\ clock = 0
    /\ lastFire = T0
    /\ userOps = [total |-> 0, switches |-> 0]
    /\ peer = ClosedTab
    /\ view = NoChart
    /\ lastOp = "stopResume"

NextRevert ==
    \/ (isReverting /\ Pace(TickPeriodMs, T0 + RevertTicks * TickPeriodMs))
    \/ Tick(RandDraws, {TRUE})
    \/ TickFetch
    \/ \E t \in pendingTicks : TickResume(t, FALSE, RandDraws, {TRUE})
SpecRevert == InitRevert /\ [][NextRevert]_vars

----------------------------------------------------------------------------
\* The last ticks of a simulation whose noise can be negative, on a page that
\* the user may reload.

\* The user reloads the page: the component's state starts again from its
\* initial values (lines 46-76), requests in flight lose their callbacks, the
\* local storage and the remote tables stay.
Reload ==
    /\ phase = "run"
    /\ pendingStarts = {}
    /\ stopsInFlight = 0
    /\ userOps.total < MaxUserOps
    /\ userOps.switches < MaxSwitches
    /\ userOps' = [total |-> userOps.total + 1, switches |-> userOps.switches + 1]
    /\ phase' = "boot"
    /\ selectedCoin' = "btc"
    /\ chartData' = <<>>
    /\ chartCoin' = "btc"
    /\ realPrice' = 0
    /\ realPriceCoin' = "btc"
    /\ simulation' = Null
    /\ isController' = FALSE
    /\ isReverting' = FALSE
    /\ isLive' = TRUE
    /\ pendingTicks' = {}
    /\ pendingLoads' = {}
    /\ lastFire' = now
    /\ lastOp' = "reload"
    /\ view' = NoChart
    /\ UNCHANGED << peer, now, env, isWidget, saved, history, remoteSims, remotePoints,
                    pendingStarts, pendingStops, clock >>

FloorTicks == 3                      \* timer periods of the scenario
SignedDraws == {0 - 1, 0, 1}         \* (Math.random() - 0.5) * 2 at both ends and the middle
FloorTargets == {PriceFloor, 2 * basePrice("btc")}   \* the target price entered

\* A simulation of one minute in its last period, started at the coin's price.
InitFloor ==
    /\ now = T0
    /\ phase = "run"
    /\ env = "none"
    /\ isWidget = FALSE
    /\ selectedCoin = "btc"
    /\ chartCoin = "btc"
    /\ realPriceCoin = "btc"
    /\ realPrice = basePrice("btc")
    /\ \E tp \in FloorTargets, age \in LastAges, vol \in AllVolatility :
          /\ chartData = << [time |-> T0 - KlineMs, price |-> basePrice("btc"),
                             isSimulation |-> FALSE],
                            [time |-> T0 - TickPeriodMs - age, price |-> basePrice("btc"),
                             isSimulation |-> TRUE] >>
          /\ simulation = SimulationConfig(PreId, PreId, TRUE, "btc", basePrice("btc"), tp,
                                           T0 + TickPeriodMs - MsPerMinute, MsPerMinute, vol)
          /\ saved = simulation
    /\ isController = TRUE
    /\ isReverting = FALSE
    /\ isLive = FALSE
    /\ history = <<>>
    /\ remoteSims = [i \in DbIds |->
           IF i = PreId THEN [active |-> TRUE, coinId |-> "btc"] ELSE Null]
    /\ remotePoints = <<>>
    /\ pendingTicks = {}
    /\ pendingLoads = {}
    /\ pendingStarts = {}
    /\ pendingStops = [i \in DbIds |-> 0]
    /\ clock = 0
    /\ lastFire = 0
    /\ userOps = [total |-> 0, switches |-> 0]
    /\ peer = ClosedTab
    /\ view = NoChart
    /\ lastOp = "startResume"

NextFloor ==
    \/ Pace(TickPeriodMs, T0 + FloorTicks * TickPeriodMs)
    \/ Tick(SignedDraws, {TRUE})
    \/ TickFetch
    \/ \E t \in pendingTicks, got \in BOOLEAN : TickResume(t, got, SignedDraws, {TRUE})
    \/ \E id \in DbIds, ok \in BOOLEAN : StopResume(id, ok)
    \/ Reload
    \/ \E found, archived \in BOOLEAN : init(found, archived)
    \/ \E l \in pendingLoads, ok \in BOOLEAN : LoadHistoryResume(l, ok, 0)
    \/ \E l \in pendingLoads, ok \in BOOLEAN : LoadPointsResume(l, ok)
SpecFloor == InitFloor /\ [][NextFloor]_vars

----------------------------------------------------------------------------
\* The properties of the specification, claim by claim.

\* C1: a tick that finds the simulation's duration elapsed on the controller
\* leaves the application with no descriptor and in Reverting, the remote
\* record inactive, the descriptor archived and removed from storage, and
\* appends no sample flagged as simulated.
C1_NaturalCompletion ==
    [][ lastOp' = "tickComplete" =>
          /\ simulation' = Null
          /\ isReverting'
          /\ ~isController'
          /\ saved' = Null
          /\ simulation # Null =>
                /\ history' = Append(history, simulation.id)
                /\ simulation.supabaseId # NoId =>
                      ~remoteSims'[simulation.supabaseId].active
          /\ chartData' # chartData => ~Last(chartData').isSimulation ]_vars

\* C2: every descriptor whose end time has passed is eventually destroyed,
\* on the controller and on a viewer alike.
C2_EventuallyEnds ==
    (simulation # Null /\ now >= simulation.endTime) ~> (simulation = Null)

\* C3: whenever the timer is due with the buffer loaded and its last sample
\* more than a period old, a fresh sample is eventually appended.
TickDue ==
    /\ phase = "run"
    /\ Len(chartData) > 0
    /\ lastFire < now
    /\ appendGate(now, Last(chartData))
FreshSample == Len(chartData) > 0 /\ ~appendGate(now, Last(chartData))
C3_AlwaysNextSample == TickDue ~> FreshSample

\* The mode shown to the user: Simulating while a descriptor exists, else
\* Reverting while the reverting flag is set, else Live.
Mode ==
    IF simulation # Null THEN "Simulating"
    ELSE IF isReverting THEN "Reverting" ELSE "Live"

\* C4: every step that destroys the descriptor sets the reverting flag, so
\* Simulating is never followed directly by Live, and Live is re-entered only
\* from Reverting by the tick whose convergence test fires.
C4_StopGoesToReverting ==
    [][ /\ (simulation # Null /\ simulation' = Null) => isReverting'
        /\ (Mode = "Simulating") => (Mode' # "Live")
        /\ (Mode # "Live" /\ Mode' = "Live") =>
              (Mode = "Reverting" /\ lastOp' = "tickSnap") ]_vars
\* A stopped simulation has been archived and Live has been re-entered by the snap.
C4_Witness ==
    /\ lastOp = "tickSnap"
    /\ Mode = "Live"
    /\ history # <<>>

\* C5: of the simulations this process has started, at most one is still
\* active, that is held as the descriptor or recorded remotely as active.
StillActive ==
    {i \in createdSims :
        \/ remoteSims[i].active
        \/ simulation # Null /\ simulation.supabaseId = i}
C5_SingleActive == Cardinality(StillActive) <= 1

\* C6: every start that gets past the form has a positive target price and a
\* positive duration, and so has every descriptor created from one.
C6_ValidStartsOnly ==
    /\ \A q \in pendingStarts : q.targetPrice > 0 /\ q.durationMs > 0
    /\ (simulation # Null /\ simulation.supabaseId \in createdSims) =>
          (simulation.targetPrice > 0 /\ simulation.durationMs > 0)

\* C7: the load started by a confirmed asset switch finds no descriptor when,
\* its history received, it reads the simulation state to build the buffer
\* (with no history received it builds a mock buffer whatever it reads).
C7_StopBeforeLoad ==
    [][ \A l \in pendingLoads :
          (/\ l.afterStop
           /\ l.stage = "history"
           /\ l \notin pendingLoads'
           /\ lastOp' # "loadMock") => (simulation = Null /\ ~isController) ]_vars

\* C8: declining the confirmation of an asset switch changes nothing: the
\* asset, the descriptor, the buffer and the stores stay as they are and no
\* load and no stop is started.
C8_DeclineChangesNothing ==
    [][ lastOp' = "coinSelectDeclined" =>
          (UNCHANGED progVars /\ UNCHANGED pendingTicks /\ simulation' # Null) ]_vars
\* The user has declined a switch while a simulation was running.
C8_Witness == lastOp = "coinSelectDeclined" /\ simulation # Null

\* C9: with no load of the selected asset in flight, the buffer and the price
\* anchor hold the selected asset's data, and the descriptor names the asset
\* its remote record names.
C9_NoStaleResults ==
    /\ (phase = "run" /\ \A l \in pendingLoads : l.coin # selectedCoin) =>
          (chartCoin = selectedCoin /\ realPriceCoin = selectedCoin)
    /\ (simulation # Null /\ simulation.supabaseId \in createdSims) =>
          remoteSims[simulation.supabaseId].coinId = simulation.coinId

\* C10: outside a load, the buffer changes only by one sample appended to
\* its latest contents (and the eviction of the oldest beyond the capacity).
LoadLabels == {"loadMerged", "loadPointsFailed", "loadMock", "loadHistory"}
C10_AppendOnly ==
    [][ (chartData' # chartData /\ lastOp' \notin LoadLabels) =>
          /\ Len(chartData') > 0
          /\ chartData' = sliceLast(Append(chartData, Last(chartData')), MaxPoints) ]_vars

\* C11: every append by the tick or by the realtime callback leaves at most
\* MaxPoints samples, and they are the newest ones of the buffer as it was
\* followed by the appended sample, in order: only the oldest are dropped.
C11_CapacityFIFO ==
    [][ (chartData' # chartData /\ lastOp' \notin LoadLabels) =>
          LET all == Append(chartData, Last(chartData'))
              k == IF Len(all) <= MaxPoints THEN Len(all) ELSE MaxPoints
          IN  /\ Len(chartData') <= MaxPoints
              /\ chartData' = SubSeq(all, Len(all) - k + 1, Len(all)) ]_vars

\* C12: the buffer never holds more than MaxPoints samples, also right after a
\* load that merges the fetched history with a simulation's remote points.
C12_CapacityBound == Len(chartData) <= MaxPoints

\* C13: a tick appends a sample only if its time is more than a period after
\* the time of the buffer's last sample, so two firings at most a period
\* apart add at most one sample.
TickLabels == {"tickComplete", "tickSimulate", "tickSnap", "tickRevert", "tickLive"}
C13_AppendGate ==
    [][ (chartData' # chartData /\ lastOp' \in TickLabels) =>
          /\ Len(chartData) > 0
          /\ Last(chartData').time - Last(chartData).time > TickPeriodMs ]_vars

\* C14: the sample times of the buffer never decrease, and a sample appended
\* to a non-empty buffer by the tick or by the realtime callback is strictly
\* later than the sample that was last before.
timeOrdered(s) == \A i \in 1..(Len(s) - 1) : s[i].time <= s[i + 1].time
C14_TimeOrdering ==
    [][ /\ timeOrdered(chartData')
        /\ (chartData' # chartData /\ lastOp' \notin LoadLabels /\ Len(chartData) > 0) =>
              Last(chartData').time > Last(chartData).time ]_vars

\* C15: without noise and with the timer firing every period from the start,
\* the simulated steps add up to targetPrice - startPrice: when a tick finds
\* the duration elapsed, the buffer's last price is the target price.
C15_NoiseFreeConvergence ==
    [][ (lastOp' = "tickComplete" /\ simulation # Null) =>
          Last(chartData').price = simulation.targetPrice ]_vars

\* C16 as the code has it: in Reverting, with the real price fixed, a tick that
\* appends a sample before the snap takes a tenth of the error off, up to its
\* noise of at most a ten-thousandth of the last price; the error strictly
\* decreases whenever that tenth exceeds the noise bound.
revertError(p) == Abs(realPrice - p.price)
C16_RevertingContracts ==
    [][ (lastOp' = "tickRevert" /\ chartData' # chartData /\ realPrice' = realPrice) =>
          LET err == revertError(Last(chartData))
              noiseMax == quot(Last(chartData).price, 10000)
          IN  /\ revertError(Last(chartData')) <= err - quot(err, 10) + noiseMax
              /\ quot(err, 10) > noiseMax => revertError(Last(chartData')) < err ]_vars
\* A Reverting tick has appended a sample that is closer to the real price
\* than the one before and still outside the snap band.
C16_Witness ==
    /\ lastOp = "tickRevert"
    /\ isReverting
    /\ Len(chartData) > 1
    /\ Last(chartData).time = now
    /\ revertError(Last(chartData)) < revertError(chartData[Len(chartData) - 1])
    /\ ~revertSnaps(realPrice, Last(chartData).price)
\* C16 as stated: in Reverting, with the real price fixed, every tick that
\* appends a sample before the snap brings the buffer's last price strictly
\* closer to the real price.
C16_RevertingDecreases ==
    [][ (lastOp' = "tickRevert" /\ chartData' # chartData /\ realPrice' = realPrice) =>
          Abs(realPrice - Last(chartData').price) < Abs(realPrice - Last(chartData).price)
      ]_vars

\* C17: a Reverting tick whose convergence test fires leaves the mode Live and
\* the buffer's last price equal to the real price.
C17_SnapToLive ==
    [][ lastOp' = "tickSnap" =>
          /\ Mode' = "Live"
          /\ Last(chartData').price = realPrice' ]_vars

\* C18: every sample the tick appends has a price of at least PriceFloor, and
\* the buffer of a controller never holds a price below it.
C18_PositiveFloor ==
    [][ /\ (chartData' # chartData /\ lastOp' \in TickLabels) =>
              Last(chartData').price >= PriceFloor
        /\ isController' =>
              \A i \in 1..Len(chartData') : chartData'[i].price >= PriceFloor ]_vars

\* C19: the sample a Live tick appends carries the price last fetched for the
\* selected asset, and while no price fetch has succeeded for it, the price of
\* the buffer's last sample.
C19_LivePrice ==
    [][ (lastOp' = "tickLive" /\ chartData' # chartData) =>
          Last(chartData').price =
             IF realPrice' = marketPrice(selectedCoin) /\ realPriceCoin' = selectedCoin
             THEN marketPrice(selectedCoin)
             ELSE Last(chartData).price ]_vars

\* C20: a tick never waits for its price fetch: once the period of a firing
\* is over, the sample of that firing is in the buffer (if the append gate
\* was open for it and its mode produces a price), whether or not the price
\* fetch it started has been answered.
C20_FetchNeverStalls ==
    \A t \in pendingTicks :
       (/\ now >= t.now + TickPeriodMs
        /\ appendGate(t.now, Last(t.lastData))
        /\ (t.sim = Null \/ t.rev \/ (t.sim.active /\ isController))) =>
          \E i \in 1..Len(chartData) : chartData[i].time = t.now

\* C21: the tick does not wait for the write of its simulated point: whether
\* the row reaches the remote log or not, the tick ends in the same step
\* with nothing left suspended, appends its sample if its append gate is
\* open, leaves the descriptor, the role, the mode flags and the stores as
\* they are, and the log gets at most one row for the tick, never a second
\* one for the same simulation and time.
firedTick == pendingTicks \ pendingTicks'
C21_FireAndForget ==
    [][ lastOp' = "tickSimulate" =>
          LET t == CHOOSE x \in firedTick : TRUE
              n == IF firedTick = {} THEN now ELSE t.now
              lastData == IF firedTick = {} THEN chartData ELSE t.lastData
              sim == IF firedTick = {} THEN simulation ELSE t.sim
              rowsOf(log) == {i \in 1..Len(log) : log[i].sim = sim.supabaseId /\ log[i].time = n}
          IN  /\ pendingTicks' = pendingTicks \ firedTick
              /\ UNCHANGED << simulation, isController, isReverting, saved, history,
                              pendingStops, pendingLoads, pendingStarts >>
              /\ ~isLive'
              /\ IF appendGate(n, Last(lastData))
                 THEN /\ Len(chartData') > 0
                      /\ Last(chartData').time = n
                      /\ Last(chartData').isSimulation
                      /\ chartData' = sliceLast(Append(lastData, Last(chartData')), MaxPoints)
                 ELSE chartData' = chartData
              /\ \/ remotePoints' = remotePoints
                 \/ /\ Len(remotePoints') = Len(remotePoints) + 1
                    /\ SubSeq(remotePoints', 1, Len(remotePoints)) = remotePoints
                    /\ Last(remotePoints').time = n
              /\ Cardinality(rowsOf(remotePoints')) <= 1 ]_vars
\* A simulating tick whose remote write did not reach the log has appended
\* its sample all the same.
C21_Witness ==
    /\ lastOp = "tickSimulate"
    /\ simulation # Null /\ simulation.supabaseId # NoId /\ isController
    /\ Len(chartData) > 0
    /\ Last(chartData).time = lastFire
    /\ Last(chartData).isSimulation
    /\ \A i \in 1..Len(remotePoints) : remotePoints[i].time # lastFire

\* C22: a row is added to the remote point log by this process only in a
\* simulating tick, run while the process is controller and holds a
\* descriptor, and the row carries a remote id; while the process is a viewer
\* (a descriptor and no controller role) its own steps add no row and leave
\* the remote records as they are, its ticks leave the buffer alone, the
\* buffer changes only by a load or by an insert event it receives, and every
\* sample flagged as simulated is a row of the followed simulation's log.
isViewer == simulation # Null /\ ~isController
ExternalLabels == {"remoteInsert", "realtimeInsert"}
----------------------------------------------------------------------------
\* Two tabs of one browser: the application with its user starting
\* simulations, and a second tab opened on the same local storage.

NextTabs ==
    \/ NextQuiet
    \/ NextStart
    \/ \E archived \in BOOLEAN : PeerOpen(archived)
SpecTabs == InitApp /\ [][NextTabs]_vars

\* C23: no simulation id has two controllers: this tab and the second tab
\* never both hold the controller role for the same simulation.
C23_SingleController ==
    ~ (/\ simulation # Null /\ isController
       /\ peer.simulation # Null /\ peer.isController
       /\ peer.simulation.id = simulation.id)

\* C24: at start-up a descriptor found in the local storage with
\* now >= endTime + GraceMs is not resumed: the application keeps no descriptor
\* and no controller role and is in Live mode, and the descriptor is archived
\* before it is cleared, so it never leaves its slot without being in the archive.
C24_StaleDiscarded ==
    [][ (/\ lastOp' = "init"
         /\ env = "none" /\ ~isWidget
         /\ saved # Null /\ now >= saved.endTime + GraceMs) =>
          /\ simulation' = Null
          /\ ~isController'
          /\ Mode' = "Live" /\ isLive'
          /\ saved' \in {Null, saved}
          /\ saved' = Null => history' = Append(history, saved.id) ]_vars

\* C25: start-up resolves the descriptor and the role by where a current
\* descriptor (now < endTime + GraceMs) comes from: from the local storage,
\* the application is Simulating with that descriptor as controller; from the
\* parameters of a share link or from the remote lookup by simulation id, it
\* is Simulating as viewer; in every other case (nothing found, the lookup
\* failed, the descriptor expired) it is Live with no descriptor and no role.
InitLabels == {"init", "initNotFound"}
finishedLoad == pendingLoads \ pendingLoads'
C26_GapFilled ==
    [][ (lastOp' = "loadMerged" /\ finishedLoad # {}) =>
          LET l == CHOOSE x \in finishedLoad : TRUE
              sim == IF l.stage = "points" THEN l.sim ELSE simulation
              hist == klineHistory(l.coin, now)
              noLog == sim.supabaseId = NoId \/ pointsOf(remotePoints, sim.supabaseId) = <<>>
              inRange == hist[1].time <= sim.startTime /\ sim.startTime <= Last(hist).time
              gapTimes == {sim.startTime + k * KlineMs :
                              k \in 0..((now - sim.startTime) \div KlineMs)}
          IN  (sim # Null /\ sim.active /\ noLog /\ inRange) =>
                 /\ \A i \in 1..Len(chartData') :
                       chartData'[i].isSimulation = (chartData'[i].time >= sim.startTime)
                 /\ \A t \in gapTimes :
                       (t < now /\ t - sim.startTime < sim.durationMs) =>
                          \E i \in 1..Len(chartData') : chartData'[i].time = t ]_vars

----------------------------------------------------------------------------
\* The component is unmounted while the page lives on.

\* The effects' cleanups run: clearInterval (line 501) and removeChannel
\* (317-319).  Nothing else is cancelled: a callback suspended in an await goes
\* on when its request is answered and writes the refs, the local storage and
\* the remote tables as before; the setters of the unmounted component's state
\* no longer show anywhere.
Unmount ==
    /\ phase = "run"
    /\ phase' = "unmounted"
    /\ lastOp' = "unmount"
    /\ view' = NoChart
    /\ UNCHANGED << now, env, isWidget, selectedCoin, chartData, chartCoin, realPrice,
                    realPriceCoin, simulation, isController, isReverting, isLive, saved,
                    history, remoteSims, remotePoints, pendingTicks, pendingLoads,
                    pendingStarts, pendingStops, clock, lastFire, userOps, peer >>

\* Time passes after the unmount, with no timer left to fire.
Pass(d) ==
    /\ phase = "unmounted"
    /\ clock < MaxClock
    /\ clock' = clock + 1
    /\ now' = now + d
    /\ lastOp' = "time"
    /\ UNCHANGED << view, phase, env, isWidget, selectedCoin, chartData, chartCoin, realPrice,
                    realPriceCoin, simulation, isController, isReverting, isLive, saved,
                    history, remoteSims, remotePoints, pendingTicks, pendingLoads,
                    pendingStarts, pendingStops, lastFire, userOps, peer >>

NextUnmount ==
    \/ NextQuiet
    \/ Unmount
    \/ \E d \in Steps : Pass(d)
SpecUnmount == InitApp /\ [][NextUnmount]_vars

\* C27: once the component is unmounted its timer fires no more, and no tick,
\* also not one that was suspended in its price fetch at the unmount, changes
\* the buffer, the real price or the descriptor afterwards.
TickSteps == TickLabels \cup {"tickFetch", "tickReturn"}
C27_TimerTeardown ==
    [][ phase = "unmounted" =>
          /\ lastFire' = lastFire
          /\ lastOp' \in TickSteps =>
                UNCHANGED << chartData, realPrice, simulation >> ]_vars

----------------------------------------------------------------------------
\* TradingChart (src/unnamed/part_003): the viewport over the buffer.  Times
\* and prices are whole numbers, pixels too; a real quotient is rounded
\* toward zero once, at the end of its expression.

MaxGestures == 3         \* pointer and touch events in a behaviour

\* getDurationFromTimeFrame, for the time frames the model uses
TimeFrames == {"1m", "5m"}
getDurationFromTimeFrame(tf) == IF tf = "1m" THEN MsPerMinute ELSE 5 * MsPerMinute

AxisZonePx == 60         \* the hit zone of the value axis, at the right edge

\* containerRef.current?.clientWidth || 1
widthOr1(w) == IF w = 0 THEN 1 ELSE w

\* A pan that takes a pixel for a millisecond.
panByPixels(xd, dx, w) == << xd[1] - dx, xd[2] - dx >>
\* A pan that moves the left bound only.
panLeftOnly(xd, dx, w) ==
    << xd[1] - quot(dx * (xd[2] - xd[1]), widthOr1(w)), xd[2] >>
\* Lines 155-160 and 245-250: both bounds shifted by dx pixels' worth of time.
pan(xd, dx, w) ==
    LET timeShift == quot(dx * (xd[2] - xd[1]), widthOr1(w)) IN
    << xd[1] - timeShift, xd[2] - timeShift >>

\* Lines 164-170 and 258-265: the value domain scaled around its centre by
\* 1 + dy * 0.005.
resizeY(yd, dy) ==
    LET range == yd[2] - yd[1]
        center == yd[1] + quot(range, 2)
        newRange == quot(range * (1000 + 5 * dy), 1000)
    IN  << center - quot(newRange, 2), center + quot(newRange, 2) >>

\* A time zoom that has no least duration.
zoomDurationUnclamped(duration, num, den) == quot(duration * num, den)
\* Math.max(60000, duration * zoomFactor), the factor as num / den
zoomDuration(duration, num, den) == Max(MsPerMinute, quot(duration * num, den))

\* Lines 227-234: the time domain scaled around its centre by lastDist / newDist,
\* not below a minute.
pinchZoom(xd, lastDist, newDist) ==
    LET currentDuration == xd[2] - xd[1]
        newDuration == zoomDuration(currentDuration, lastDist, newDist)
        center == xd[1] + quot(currentDuration, 2)
    IN  << center - quot(newDuration, 2), center + quot(newDuration, 2) >>

\* visibleData (lines 317-327)
visibleData(data, xd) ==
    IF xd = Null \/ Len(data) = 0 THEN sliceLast(data, 100)
    ELSE LET duration == xd[2] - xd[1]
             minTime == xd[1] - quot(duration, 2)
             maxTime == xd[2] + quot(duration, 2)
             startIndex == findIndex(data, minTime)
         IN  IF startIndex = 0 THEN <<>>
             ELSE SelectSeq(SubSeq(data, startIndex, Len(data)),
                            LAMBDA d : d.time <= maxTime)

\* The chart is mounted once the buffer has samples (src/App.tsx 573-579) and
\* its effects run: the initial view (lines 80-86) sets the time domain.
ChartMount(w, tf) ==
    /\ phase = "run"
    /\ ~view.mounted
    /\ Len(chartData) > 0
    /\ view' = [mounted |-> TRUE, clientWidth |-> w, activeTimeFrame |-> tf,
                xDomain |-> << Last(chartData).time - getDurationFromTimeFrame(tf),
                               Last(chartData).time >>,
                yDomain |-> NoDomain, isAutoScroll |-> TRUE, isAutoY |-> TRUE,
                isDragging |-> FALSE, isResizingY |-> FALSE, isPinching |-> FALSE,
                lastPointerPos |-> Null, lastTouchDist |-> 0, fingers |-> 0,
                gestures |-> 0]
    /\ lastOp' = "chartMount"
    /\ UNCHANGED << now, phase, env, isWidget, selectedCoin, chartData, chartCoin,
                    realPrice, realPriceCoin, simulation, isController, isReverting,
                    isLive, saved, history, remoteSims, remotePoints, pendingTicks,
                    pendingLoads, pendingStarts, pendingStops, clock, lastFire, userOps,
                    peer >>

\* What a chart handler leaves alone: everything but the view.
chartFrame ==
    UNCHANGED << now, phase, env, isWidget, selectedCoin, chartData, chartCoin,
                 realPrice, realPriceCoin, simulation, isController, isReverting,
                 isLive, saved, history, remoteSims, remotePoints, pendingTicks,
                 pendingLoads, pendingStarts, pendingStops, clock, lastFire, userOps,
                 peer >>

\* A follow that pins the right edge and leaves the left edge where it was.
followRightEdge(xd, data) == << xd[1], Last(data).time >>
\* Lines 92-96: the domain of the same duration ending at the last sample.
follow(xd, data) ==
    LET lastTime == Last(data).time
        currentDuration == xd[2] - xd[1]
    IN  << lastTime - currentDuration, lastTime >>

\* The auto-scroll effect (lines 89-97), when it has something to change.
AutoScroll ==
    /\ view.mounted
    /\ Len(chartData) > 0 /\ view.isAutoScroll /\ view.xDomain # Null
    /\ view.xDomain # follow(view.xDomain, chartData)
    /\ view' = [view EXCEPT !.xDomain = follow(view.xDomain, chartData)]
    /\ lastOp' = "autoScroll"
    /\ chartFrame

pointerOverYAxis(x) == x > view.clientWidth - AxisZonePx

\* handleMouseDown (lines 132-146)
MouseDown(x, y) ==
    /\ view.mounted
    /\ view.gestures < MaxGestures
    /\ view' = IF pointerOverYAxis(x)
               THEN [view EXCEPT !.lastPointerPos = [x |-> x, y |-> y],
                                 !.isResizingY = TRUE, !.isAutoY = FALSE,
                                 !.gestures = @ + 1]
               ELSE [view EXCEPT !.lastPointerPos = [x |-> x, y |-> y],
                                 !.isDragging = TRUE, !.isAutoScroll = FALSE,
                                 !.gestures = @ + 1]
    /\ lastOp' = "mouseDown"
    /\ chartFrame

\* handleMouseMove (lines 148-172), past its early return
MouseMove(x, y) ==
    /\ view.mounted
    /\ view.gestures < MaxGestures
    /\ view.isDragging \/ view.isResizingY
    /\ view.lastPointerPos # Null
    /\ view.xDomain # Null
    /\ LET dx == x - view.lastPointerPos.x
           dy == y - view.lastPointerPos.y
       IN  view' = [view EXCEPT
                      !.lastPointerPos = [x |-> x, y |-> y],
                      !.xDomain = IF view.isDragging
                                  THEN pan(view.xDomain, dx, view.clientWidth) ELSE @,
                      !.yDomain = IF view.isResizingY /\ view.yDomain # NoDomain
                                  THEN resizeY(view.yDomain, dy) ELSE @,
                      !.gestures = @ + 1]
    /\ lastOp' = "mouseMove"
    /\ chartFrame

\* handleMouseUp (lines 174-179), also bound to the mouse leaving
MouseUp ==
    /\ view.mounted
    /\ view.gestures < MaxGestures
    /\ view' = [view EXCEPT !.isDragging = FALSE, !.isResizingY = FALSE,
                            !.lastPointerPos = Null, !.gestures = @ + 1]
    /\ lastOp' = "mouseUp"
    /\ chartFrame

\* handleTouchStart (lines 183-217) with n fingers down: the first at (x, y),
\* two of them dist apart
TouchStart(n, x, y, dist) ==
    /\ view.mounted
    /\ view.gestures < MaxGestures
    /\ view.xDomain # Null
    /\ n > view.fingers
    /\ view' =
         IF n = 2
         THEN IF dist # 0
              THEN [view EXCEPT !.isAutoScroll = FALSE, !.lastTouchDist = dist,
                                !.isPinching = TRUE, !.isDragging = FALSE,
                                !.fingers = n,
                                !.gestures = @ + 1]
              ELSE [view EXCEPT !.isAutoScroll = FALSE, !.fingers = n,
                                !.gestures = @ + 1]
         ELSE IF pointerOverYAxis(x)
              THEN [view EXCEPT !.isAutoScroll = FALSE,
                                !.lastPointerPos = [x |-> x, y |-> y],
                                !.isResizingY = TRUE, !.isAutoY = FALSE,
                                !.fingers = n,
                                !.gestures = @ + 1]
              ELSE [view EXCEPT !.isAutoScroll = FALSE,
                                !.lastPointerPos = [x |-> x, y |-> y],
                                !.isDragging = TRUE, !.fingers = n,
                                !.gestures = @ + 1]
    /\ lastOp' = "touchStart"
    /\ chartFrame

\* handleTouchMove (lines 219-266)
TouchMove(n, x, y, dist) ==
    /\ view.mounted
    /\ view.gestures < MaxGestures
    /\ view.xDomain # Null
    /\ n = view.fingers
    /\ view' =
         IF n = 2 /\ view.lastTouchDist # 0
         THEN IF dist # 0
              THEN [view EXCEPT !.lastTouchDist = dist,
                                !.xDomain = pinchZoom(view.xDomain, view.lastTouchDist, dist),
                                !.gestures = @ + 1]
              ELSE [view EXCEPT !.gestures = @ + 1]
         ELSE IF n = 1
         THEN LET pans == view.isDragging /\ view.lastPointerPos # Null /\ ~view.isPinching
                  pos == IF pans THEN [x |-> x, y |-> y] ELSE view.lastPointerPos
                  resizes == view.isResizingY /\ pos # Null /\ view.yDomain # NoDomain
              IN  [view EXCEPT
                     !.xDomain = IF pans
                                 THEN pan(view.xDomain, x - view.lastPointerPos.x,
                                          view.clientWidth)
                                 ELSE @,
                     !.yDomain = IF resizes THEN resizeY(view.yDomain, y - pos.y) ELSE @,
                     !.lastPointerPos = IF pans \/ resizes THEN [x |-> x, y |-> y] ELSE @,
                     !.gestures = @ + 1]
         ELSE [view EXCEPT !.gestures = @ + 1]
    /\ lastOp' = "touchMove"
    /\ chartFrame

\* handleTouchEnd (lines 268-274): fingers are lifted and k stay down
TouchEnd(k) ==
    /\ view.mounted
    /\ view.gestures < MaxGestures
    /\ k < view.fingers
    /\ view' = [view EXCEPT !.isDragging = FALSE, !.isPinching = FALSE,
                            !.isResizingY = FALSE, !.lastPointerPos = Null,
                            !.lastTouchDist = 0, !.fingers = k, !.gestures = @ + 1]
    /\ lastOp' = "touchEnd"
    /\ chartFrame

\* Lines 291-298: the value domain, or [0, 100] when none is set, scaled
\* around its centre by num / 100; the domain on screen (shown) is not read.
wheelY(yd, shown, num) ==
    LET currentYMin == IF yd # NoDomain THEN yd[1] ELSE 0
        currentYMax == IF yd # NoDomain THEN yd[2] ELSE 100
        range == currentYMax - currentYMin
        center == currentYMin + quot(range, 2)
        newRange == quot(range * num, 100)
    IN  << center - quot(newRange, 2), center + quot(newRange, 2) >>

\* chartYDomain (lines 329-349) of the samples on screen: the value domain
\* when auto mode is off and one is set, else the samples' range padded.
chartYDomain(data, xd, yd, autoY) ==
    LET vis == visibleData(data, xd)
        prices == {vis[i].price : i \in 1..Len(vis)}
        min == CHOOSE p \in prices : \A q \in prices : p <= q
        max == CHOOSE p \in prices : \A q \in prices : p >= q
        padding == quot((max - min) * 15, 100)
    IN  IF ~autoY /\ yd # NoDomain THEN yd
        ELSE IF Len(vis) = 0 THEN << 0, 100 >>
        ELSE IF min = max THEN << quot(min * 9, 10), quot(max * 11, 10) >>
        ELSE << min - padding, max + padding >>

\* handleWheel (lines 280-313): sign is Math.sign(deltaY)
Wheel(x, sign) ==
    LET num == IF sign > 0 THEN 105 ELSE 95
        duration == view.xDomain[2] - view.xDomain[1]
        newDuration == zoomDuration(duration, num, 100)
        center == view.xDomain[1] + quot(duration, 2)
        lastTime == Last(chartData).time
    IN
    /\ view.mounted
    /\ view.gestures < MaxGestures
    /\ view.xDomain # Null
    /\ view' =
         IF pointerOverYAxis(x)
         THEN [view EXCEPT !.isAutoY = FALSE,
                           !.yDomain = wheelY(view.yDomain,
                                              chartYDomain(chartData, view.xDomain,
                                                           view.yDomain, view.isAutoY),
                                              num),
                           !.gestures = @ + 1]
         ELSE IF view.isAutoScroll
         THEN [view EXCEPT !.xDomain = << lastTime - newDuration, lastTime >>,
                           !.gestures = @ + 1]
         ELSE [view EXCEPT !.xDomain = << center - quot(newDuration, 2),
                                          center + quot(newDuration, 2) >>,
                           !.gestures = @ + 1]
    /\ lastOp' = IF pointerOverYAxis(x) THEN "wheelY" ELSE "wheel"
    /\ chartFrame

\* A click reaches a button after the pointer-up or touch-end of the gesture
\* in progress.
pointerFree == ~view.isDragging /\ ~view.isResizingY /\ ~view.isPinching

\* setTimeFrame (lines 110-119), from a time frame button
SetTimeFrame(tf) ==
    /\ view.mounted
    /\ view.gestures < MaxGestures
    /\ pointerFree
    /\ Len(chartData) > 0
    /\ view' = [view EXCEPT !.activeTimeFrame = tf,
                            !.xDomain = << Last(chartData).time - getDurationFromTimeFrame(tf),
                                           Last(chartData).time >>,
                            !.isAutoScroll = TRUE,
                            !.gestures = @ + 1]
    /\ lastOp' = "setTimeFrame"
    /\ chartFrame

\* The LIVE / PAUSED indicator is clicked (line 395).
LiveClick ==
    /\ view.mounted
    /\ view.gestures < MaxGestures
    /\ pointerFree
    /\ view' = [view EXCEPT !.isAutoScroll = TRUE, !.gestures = @ + 1]
    /\ lastOp' = "liveClick"
    /\ chartFrame

\* The reset button (lines 397-405), shown while a mode is off auto.
ResetView ==
    /\ view.mounted
    /\ view.gestures < MaxGestures
    /\ pointerFree
    /\ ~view.isAutoScroll \/ ~view.isAutoY
    /\ view' = [view EXCEPT !.isAutoScroll = TRUE, !.isAutoY = TRUE, !.yDomain = NoDomain,
                            !.gestures = @ + 1]
    /\ lastOp' = "resetView"
    /\ chartFrame

\* What the user's pointer and fingers can do in the model.
ContainerWidths == {70, 600}       \* clientWidth of the chart's container, in pixels
PointerXs == {0, 5, 300, 590}      \* offsetX of a pointer event
PointerYs == {0, 40}               \* clientY of a pointer event
TouchDists == {50, 100}            \* distance between two fingers

NextMouse ==
    \/ \E x \in PointerXs, y \in PointerYs : MouseDown(x, y)
    \/ \E x \in PointerXs, y \in PointerYs : MouseMove(x, y)
    \/ MouseUp
NextTouch ==
    \/ \E n \in 1..2, x \in PointerXs, y \in PointerYs, dist \in TouchDists :
          TouchStart(n, x, y, dist)
    \/ \E n \in 1..2, x \in PointerXs, y \in PointerYs, dist \in TouchDists :
          TouchMove(n, x, y, dist)
    \/ \E k \in 0..1 : TouchEnd(k)

\* The chart over a buffer that stays as it is: the application in Live mode
\* with its history loaded, the user panning and pinching.
InitChart ==
    /\ now = T0
    /\ phase = "run"
    /\ env = "none"
    /\ isWidget = FALSE
    /\ selectedCoin = "btc"
    /\ chartData \in {klineHistory("btc", T0), mockHistory("btc", T0, 1)}
    /\ chartCoin = "btc"
    /\ realPrice = basePrice("btc")
    /\ realPriceCoin = "btc"
    /\ simulation = Null
    /\ isController = FALSE
    /\ isReverting = FALSE
    /\ isLive = TRUE
    /\ saved = Null
    /\ history = <<>>
    /\ remoteSims = [i \in DbIds |-> Null]
    /\ remotePoints = <<>>
    /\ pendingTicks = {}
    /\ pendingLoads = {}
    /\ pendingStarts = {}
    /\ pendingStops = [i \in DbIds |-> 0]
    /\ clock = 0
    /\ lastFire = T0
    /\ userOps = [total |-> 0, switches |-> 0]
    /\ peer = ClosedTab
    /\ view = NoChart
    /\ lastOp = "loadHistory"
NextChart ==
    \/ \E w \in ContainerWidths, tf \in TimeFrames : ChartMount(w, tf)
    \/ NextMouse
    \/ NextTouch
SpecChart == InitChart /\ [][NextChart]_vars

\* The chart over the running engine: the buffer changes under the viewport.
NextView ==
    \/ NextEngine
    \/ \E tf \in TimeFrames : ChartMount(600, tf)
    \/ AutoScroll
SpecView == Init /\ [][NextView]_vars

\* C28: with a time domain set, every sample visibleData returns has its
\* time within [xDomain[0] - w/2, xDomain[1] + w/2] (w the domain's width),
\* the result is a contiguous part of the buffer with non-decreasing times,
\* and no buffered sample of that interval is left out; with no time domain
\* the result is the last 100 samples.
C28_VisibleSlice ==
    view.mounted =>
       LET r == visibleData(chartData, view.xDomain) IN
       IF view.xDomain = Null THEN r = sliceLast(chartData, 100)
       ELSE LET w == view.xDomain[2] - view.xDomain[1]
                lo == view.xDomain[1] - quot(w, 2)
                hi == view.xDomain[2] + quot(w, 2)
            IN  /\ \A i \in 1..Len(r) : lo <= r[i].time /\ r[i].time <= hi
                /\ timeOrdered(r)
                /\ \E a \in 1..(Len(chartData) + 1) :
                      r = SubSeq(chartData, a, a + Len(r) - 1)
                /\ \A i \in 1..Len(chartData) :
                      (lo <= chartData[i].time /\ chartData[i].time <= hi) =>
                         \E j \in 1..Len(r) : r[j] = chartData[i]

\* C29: a pan by dx pixels followed, with the same container width, by a pan
\* by -dx pixels gives the time domain the first pan started from: every pan
\* a mouse or touch move makes keeps the width of the domain, and the pan by
\* the opposite pixel delta applied to its result is the domain it started
\* from.
panningMove ==
    /\ view.mounted /\ view'.mounted
    /\ view.isDragging
    /\ view.lastPointerPos # Null
    /\ \/ lastOp' = "mouseMove"
       \/ lastOp' = "touchMove" /\ ~view.isPinching /\ view'.lastPointerPos # view.lastPointerPos
C29_PanRoundTrip ==
    [][ panningMove =>
          LET dx == view'.lastPointerPos.x - view.lastPointerPos.x IN
          /\ view'.xDomain = pan(view.xDomain, dx, view.clientWidth)
          /\ view'.xDomain[2] - view'.xDomain[1] = view.xDomain[2] - view.xDomain[1]
          /\ pan(view'.xDomain, 0 - dx, view.clientWidth) = view.xDomain ]_vars
\* A pan has moved the time domain off the newest sample.
C29_Witness ==
    /\ view.mounted
    /\ lastOp \in {"mouseMove", "touchMove"}
    /\ view.isDragging
    /\ view.xDomain[2] # Last(chartData).time
    /\ view.xDomain[2] - view.xDomain[1] = getDurationFromTimeFrame(view.activeTimeFrame)

----------------------------------------------------------------------------
\* The first periods of a simulation, with noise of either sign and every
\* jerk multiplier: the timer fires on its period between two price fetches.
StepTicks == 3          \* timer periods of the scenario

NextStep ==
    \/ Pace(TickPeriodMs, T0 + StepTicks * TickPeriodMs)
    \/ Tick(SignedDraws, {TRUE})
SpecStep == InitConverge /\ [][NextStep]_vars

\* C30: in a controller tick before the simulation's end the next price is
\* the last price plus the trend step (target - last) / max(1, remaining /
\* 1000) plus noise * jerk, with |noise| <= last * m (m = 0.0001 low, 0.0005
\* medium, 0.002 high), jerk in {1, 2, 4} and 4 only under high volatility;
\* so it is within 2 * m * last of the trend under low and medium and within
\* 4 * m * last under high, and the sample the tick appends is flagged
\* isSimulation.
C30_SimulatingStep ==
    [][ (lastOp' = "tickSimulate" /\ Len(remotePoints') = Len(remotePoints) + 1) =>
          LET t == CHOOSE x \in firedTick : TRUE
              n == IF firedTick = {} THEN now ELSE t.now
              lastData == IF firedTick = {} THEN chartData ELSE t.lastData
              sim == IF firedTick = {} THEN simulation ELSE t.sim
              lastPrice == Last(lastData).price
              nextPrice == Last(remotePoints').price
              elapsed == n - sim.startTime
              remaining == sim.durationMs - elapsed
              trend == quot((sim.targetPrice - lastPrice) * 1000, Max(1000, remaining))
              mE4 == CASE sim.volatility = "low" -> 1
                       [] sim.volatility = "medium" -> 5
                       [] sim.volatility = "high" -> 20
              most == IF sim.volatility = "high" THEN 4 ELSE 2
              deviation == nextPrice - lastPrice - trend
              noiseBound == (lastPrice * mE4) \div 10000
          IN  /\ elapsed < sim.durationMs
              /\ \E jerk \in {1, 2, 4} :
                    /\ Abs(deviation) % jerk = 0
                    /\ Abs(deviation) \div jerk <= noiseBound
                    /\ jerk = 4 => sim.volatility = "high"
              /\ Abs(deviation) * 10000 <= most * mE4 * lastPrice
              /\ appendGate(n, Last(lastData)) =>
                    /\ Last(chartData') = [time |-> n, price |-> clampPrice(nextPrice),
                                           isSimulation |-> TRUE]
                    /\ chartData' = sliceLast(Append(lastData, Last(chartData')), MaxPoints) ]_vars
\* A simulating tick under high volatility has appended a sample that is four
\* noise bounds away from the trend.
C30_Witness ==
    /\ lastOp = "tickSimulate"
    /\ simulation # Null /\ simulation.volatility = "high" /\ isController
    /\ Len(chartData) >= 2
    /\ Last(chartData).time = lastFire
    /\ Last(chartData).isSimulation
    /\ LET prev == chartData[Len(chartData) - 1].price
           remaining == simulation.durationMs - (lastFire - simulation.startTime)
           trend == quot((simulation.targetPrice - prev) * 1000, Max(1000, remaining))
       IN  /\ remaining > TickPeriodMs
           /\ trend # 0
           /\ Abs(Last(chartData).price - prev - trend) = 4 * ((prev * 20) \div 10000)
           /\ Last(remotePoints).price = Last(chartData).price

----------------------------------------------------------------------------
\* The application opened through a link to a followed simulation, outside
\* widget mode: the admin panel is usable while init() waits for the row.
InitLookup == Init /\ env = "sim_id" /\ ~isWidget
SpecHydrate == InitLookup /\ [][NextQuiet \/ NextStart \/ StopClick]_vars

\* C31: the engine is in exactly one of the modes Live, Simulating and
\* Reverting: in no reachable state is a descriptor present while the
\* reverting flag is true, whenever start-up's hydration completes.
C31_OneMode == ~(simulation # Null /\ isReverting)

\* C32: a load that has fetched the history and the non-empty remote log of
\* the active simulation leaves exactly the fetched history samples earlier
\* than startTime followed by the log's points in log order: no sample is
\* synthesized and no history sample at or after startTime is kept.
C32_LogPreferred ==
    [][ (lastOp' = "loadMerged" /\ finishedLoad # {}) =>
          LET l == CHOOSE x \in finishedLoad : TRUE
              rows == SelectSeq(remotePoints, LAMBDA row : row.sim = l.sim.supabaseId)
              logged == [i \in 1..Len(rows) |->
                           [time |-> rows[i].time, price |-> rows[i].price,
                            isSimulation |-> TRUE]]
              before == SelectSeq(l.hist, LAMBDA p : p.time < l.sim.startTime)
          IN  (l.stage = "points" /\ l.sim.active /\ Len(rows) > 0) =>
                 /\ chartData' = before \o logged
                 /\ \A i \in 1..Len(chartData') :
                       \/ i <= Len(before) /\ chartData'[i].time < l.sim.startTime
                                           /\ \E j \in 1..Len(l.hist) : l.hist[j] = chartData'[i]
                       \/ i > Len(before) /\ chartData'[i].time = rows[i - Len(before)].time
                                          /\ chartData'[i].price = rows[i - Len(before)].price ]_vars
\* A load has merged a cut history with the points of the simulation's log.
C32_Witness ==
    /\ lastOp = "loadMerged"
    /\ simulation # Null /\ simulation.active /\ simulation.supabaseId # NoId
    /\ Len(pointsOf(remotePoints, simulation.supabaseId)) > 0
    /\ Len(chartData) > Len(pointsOf(remotePoints, simulation.supabaseId))
    /\ ~chartData[1].isSimulation
    /\ Last(chartData).isSimulation
    /\ Len(chartData) < HistLen + Len(pointsOf(remotePoints, simulation.supabaseId))

----------------------------------------------------------------------------
\* The chart over a live buffer that grows: the timer appends a sample every
\* period while the user drags the chart and clicks LIVE.
FollowTicks == 3        \* timer periods of the scenario

NextFollow ==
    \/ \E tf \in TimeFrames : ChartMount(600, tf)
    \/ Pace(TickPeriodMs, T0 + FollowTicks * TickPeriodMs)
    \/ Tick({0}, {TRUE})
    \/ AutoScroll
    \/ NextMouse
    \/ LiveClick
SpecFollow == InitChart /\ [][NextFollow]_vars

\* C33: when the buffer has changed and auto-scroll is on with a time domain
\* set, the follow sets xDomain to [t - w, t], t the time of the latest
\* sample and w the width xDomain had; arriving data itself leaves xDomain as
\* it is, and with auto-scroll off (after a pan or a touch) no follow runs.
ViewportLabels ==
    {"chartMount", "autoScroll", "mouseDown", "mouseMove", "mouseUp", "touchStart",
     "touchMove", "touchEnd", "wheel", "wheelY", "setTimeFrame", "liveClick",
     "resetView"}
----------------------------------------------------------------------------
\* The chart over a loaded buffer with every gesture and button of the user.
NextGesture ==
    \/ NextChart
    \/ \E x \in PointerXs, sign \in {0 - 1, 1} : Wheel(x, sign)
    \/ \E tf \in TimeFrames : SetTimeFrame(tf)
    \/ LiveClick
    \/ ResetView
SpecGesture == InitChart /\ [][NextGesture]_vars

\* C34: a move of dx pixels while Dragging shifts both bounds of xDomain by
\* -dx * (width of xDomain / width of the container), so pans keep the width
\* of xDomain; and auto-scroll is off from the pointer-down that starts the
\* drag until the user turns it on again with a button.
dragMove ==
    /\ view.mounted /\ view'.mounted
    /\ view.isDragging
    /\ view.lastPointerPos # Null
    /\ \/ lastOp' = "mouseMove"
       \/ lastOp' = "touchMove" /\ view.fingers = 1
FollowButtons == {"liveClick", "setTimeFrame", "resetView"}
C34_Pan ==
    [][ /\ dragMove =>
              LET dx == view'.lastPointerPos.x - view.lastPointerPos.x
                  w == view.xDomain[2] - view.xDomain[1]
                  shift == quot(dx * w, IF view.clientWidth = 0 THEN 1 ELSE view.clientWidth)
              IN  /\ view'.xDomain = << view.xDomain[1] - shift, view.xDomain[2] - shift >>
                  /\ view'.xDomain[2] - view'.xDomain[1] = w
        /\ (view'.mounted /\ view'.isDragging) => ~view'.isAutoScroll
        /\ (view.mounted /\ view'.mounted /\ ~view.isAutoScroll /\ view'.isAutoScroll) =>
              lastOp' \in FollowButtons ]_vars
\* A drag has shifted the time domain by a whole number of pixels' worth of
\* time, with auto-scroll off.
C34_Witness ==
    /\ view.mounted
    /\ lastOp \in {"mouseMove", "touchMove"}
    /\ view.isDragging /\ ~view.isAutoScroll
    /\ view.lastPointerPos # Null /\ view.lastPointerPos.x = 300
    /\ view.xDomain[2] = Last(chartData).time
                           - quot(300 * getDurationFromTimeFrame(view.activeTimeFrame), 600)
    /\ view.xDomain[2] - view.xDomain[1] = getDurationFromTimeFrame(view.activeTimeFrame)

\* C35: a wheel zoom off the value axis and a pinch zoom leave xDomain with
\* the width max(60000 ms, old width * factor), the factor 1.05 or 0.95 for
\* the wheel and the ratio of the finger distances for the pinch (up to the
\* rounding of the halves to whole milliseconds), so the width of xDomain is
\* never below 60000 ms; with auto-scroll on the right bound is the time of
\* the latest sample, otherwise the centre of xDomain stays where it was.
centreOf(xd) == xd[1] + quot(xd[2] - xd[1], 2)
C35_TimeZoom ==
    [][ /\ view'.mounted => view'.xDomain[2] - view'.xDomain[1] >= 60000
        /\ (view.mounted /\ lastOp' = "wheel") =>
              LET w == view.xDomain[2] - view.xDomain[1]
                  w2 == view'.xDomain[2] - view'.xDomain[1]
              IN  /\ \E num \in {95, 105} :
                        LET target == IF (w * num) \div 100 > 60000
                                      THEN (w * num) \div 100 ELSE 60000
                        IN  target - 1 <= w2 /\ w2 <= target
                  /\ IF view.isAutoScroll
                     THEN view'.xDomain[2] = Last(chartData).time
                     ELSE centreOf(view'.xDomain) = centreOf(view.xDomain)
        /\ (view.mounted /\ lastOp' = "touchMove" /\ view.fingers = 2
            /\ view.lastTouchDist # 0) =>
              LET w == view.xDomain[2] - view.xDomain[1]
                  w2 == view'.xDomain[2] - view'.xDomain[1]
                  scaled == (w * view.lastTouchDist) \div view'.lastTouchDist
                  target == IF scaled > 60000 THEN scaled ELSE 60000
              IN  /\ target - 1 <= w2 /\ w2 <= target
                  /\ IF view.isAutoScroll
                     THEN view'.xDomain[2] = Last(chartData).time
                     ELSE centreOf(view'.xDomain) = centreOf(view.xDomain) ]_vars
\* A wheel zoom inwards has been held at the least width, around the centre
\* of a domain that a drag had moved.
C35_Witness ==
    /\ view.mounted
    /\ lastOp = "wheel"
    /\ ~view.isAutoScroll
    /\ view.activeTimeFrame = "1m"
    /\ view.xDomain[2] - view.xDomain[1] = 60000
    /\ view.xDomain[2] # Last(chartData).time

\* C36: a Y-resize move of dy pixels and a wheel zoom over the value axis each
\* replace the value domain on screen by one with the same centre and the
\* width multiplied by 1 + dy * 0.005, respectively by 1.05 or 0.95, with
\* auto mode for the value axis off; the new domain has min < max, and the
\* first such gesture from auto mode scales the domain that was on screen.
scaledAround(shown, num, den, yd) ==
    LET range == shown[2] - shown[1]
        target == quot(range * num, den)
        width == yd[2] - yd[1]
    IN  /\ centreOf(yd) = centreOf(shown)
        /\ target - 1 <= width /\ width <= target
C36_ValueScaling ==
    [][ LET shown == chartYDomain(chartData, view.xDomain, view.yDomain, view.isAutoY) IN
        /\ (view.mounted /\ lastOp' = "wheelY") =>
              /\ ~view'.isAutoY
              /\ view'.yDomain # NoDomain
              /\ view'.yDomain[1] < view'.yDomain[2]
              /\ \E num \in {95, 105} : scaledAround(shown, num, 100, view'.yDomain)
        /\ (view.mounted /\ view.isResizingY /\ view.lastPointerPos # Null
            /\ (lastOp' = "mouseMove" \/ (lastOp' = "touchMove" /\ view.fingers = 1))) =>
              LET dy == view'.lastPointerPos.y - view.lastPointerPos.y IN
              /\ ~view'.isAutoY
              /\ view'.yDomain # NoDomain
              /\ view'.yDomain[1] < view'.yDomain[2]
              /\ scaledAround(shown, 1000 + 5 * dy, 1000, view'.yDomain) ]_vars

\* C37: whatever pointer and touch events arrive, also a pointer-down or a
\* second finger while a drag or a Y-resize is active, at most one of
\* Dragging, ResizingY and Pinching is active, and every pointer-up and
\* touch-end leaves the chart Idle with no tracked pointer position.
activeModes ==
    (IF view.isDragging THEN 1 ELSE 0) + (IF view.isResizingY THEN 1 ELSE 0)
       + (IF view.isPinching THEN 1 ELSE 0)
C37_OneInteraction ==
    view.mounted =>
       /\ activeModes <= 1
       /\ lastOp \in {"mouseUp", "touchEnd"} =>
             (activeModes = 0 /\ view.lastPointerPos = Null)

\* C38: a stop affects only the simulation it was issued for: when the remote
\* update of a stop call for simulation A returns while a different
\* simulation B is the descriptor, B stays the descriptor, is neither
\* archived nor cleared from the storage, and the engine does not go into
\* Reverting.
resumedStop == CHOOSE i \in DbIds : pendingStops'[i] < pendingStops[i]
C38_StopOwnSimulation ==
    [][ (lastOp' = "stopResume" /\ simulation # Null
         /\ simulation.supabaseId # resumedStop) =>
          /\ simulation' = simulation
          /\ saved' = saved
          /\ history' = history
          /\ ~isReverting' ]_vars

\* C39: every simulation this process controls and ends is archived exactly
\* once, however ticks and stop calls interleave (the tick calls stop again
\* every period while an earlier call's remote update is pending): the
\* archive never holds two entries for one simulation nor an entry that is
\* null, and a stop call that returns adds the simulation it was issued for
\* unless the archive has it already.
archivedTimes(h, id) == Cardinality({i \in 1..Len(h) : h[i] = id})
C39_ArchivedOnce ==
    [][ /\ \A i \in 1..Len(history') : history'[i] # NullId
        /\ \A i, j \in 1..Len(history') : history'[i] = history'[j] => i = j
        /\ lastOp' = "stopResume" => archivedTimes(history', resumedStop) = 1 ]_vars

\* C40: every row the controller submits (sent marks the rows of this process) to the remote log is also appended to
\* its own buffer in the same tick, with the same time and the same price: a
\* step that adds a row to simulation_points leaves the buffer ending in a new
\* simulated sample that carries the row's time and the row's price.
submittedRow == Last(remotePoints')
C40_LogMirrorsBuffer ==
    [][ Len(remotePoints') > Len(remotePoints) /\ submittedRow.sent
          => /\ chartData' # chartData
             /\ Len(chartData') > 0
             /\ Last(chartData').isSimulation
             /\ Last(chartData').time = submittedRow.time
             /\ Last(chartData').price = submittedRow.price ]_vars

====
